---- MODULE Spec2Model ----
(***************************************************************************)
(* Parts of the int3nts repository.                                        *)
(*                                                                         *)
(* The escrow state machine, as hosted by its two Solana programs:         *)
(*   "native" : intent-frameworks/svm/programs/intent_escrow (GMP mode,    *)
(*              processor.rs), fed by gmp-common/src/messages.rs payloads  *)
(*   "anchor" : svm-intent-framework/programs/intent_escrow (signature     *)
(*              mode, lib.rs)                                              *)
(* A Pubkey and an intent id are 32-byte arrays; the model writes such an  *)
(* array as the natural number it holds big-endian and converts it to and  *)
(* from bytes where the code does (the GMP payloads).  Specification Spec. *)
(*                                                                         *)
(* The inflow validator (trusted-verifier/src/validator/inflow_generic.rs) *)
(* with the solver registry it consults.  Specification SpecValidator.     *)
(*                                                                         *)
(* The event monitor and its pollers (SpecMonitor), the outflow and        *)
(* fulfillment validation (SpecOutflow), the GMP codec on its own          *)
(* (SpecCodec), the address and intent id normalizers (SpecNormalizer)     *)
(* and the readers of EVM logs and calldata (SpecEvm).                     *)
(***************************************************************************)
EXTENDS Integers, Sequences, FiniteSets, TLC

VARIABLES
    program,        \* which program this deployment runs: "native" or "anchor"
    now,            \* Clock::get()?.unix_timestamp
    state,          \* the state PDA: EscrowState (approver / verifier key)
    escrows,        \* escrow PDA of each intent id: Escrow, or an empty account
    requirements,   \* requirements PDA of each intent id (native program)
    vault,          \* token balance of the vault PDA of each intent id
    payouts,        \* per intent id: the transfers made out of its vault
    issued,         \* intent ids the honest approver has signed so far
    last,           \* the instruction that succeeded last, with its accounts
    crate,          \* which crate's validator runs: "trusted-verifier" or
                    \* "integrated-gmp" ("none" while the escrow programs run)
    intent_event,   \* the hub chain's IntentEvent under validation
    escrow_event,   \* the connected chain's EscrowEvent under validation
    registry,       \* what the hub's solver registry answers to a query
    validation,     \* the validation made last and what it returned
    fulfillment_tx, \* the connected chain's fulfillment transaction under
                    \* outflow validation, with its success flag
    fulfillment_event, \* the hub chain's FulfillmentEvent under validation
    event_cache,    \* EventMonitor.event_cache: the cached IntentEvents
    escrow_cache,   \* EventMonitor.escrow_cache: the cached EscrowEvents
    approvals,      \* the Approval kept for each escrow id, if any
    chain,          \* the events the connected chains hold for the pollers
    pollers,        \* per poller: the events it fetched and has yet to apply
    applied,        \* the chain events applied to the caches so far
    wall_clock,     \* SystemTime::now() in seconds
    monitor_call,   \* the EventMonitor call made last and what it returned
    gmp_message,    \* the GMP message handed to encode
    buffer,         \* the byte buffer encode filled, as the wire delivers it
    codec_out,      \* what the decode or the intake handler run last returned
    lhs,            \* an address or intent id string handed to a normalizer
    rhs,            \* the string it is compared with
    normalized,     \* what the normalizer run last made of them
    evm_response,   \* the answer of the EVM node to eth_getLogs
    evm_tx,         \* the EVM transaction fulfillment parameters are read from
    evm_out         \* what the EVM reader run last returned

escrow_vars == <<program, now, state, escrows, requirements, vault, payouts, issued, last>>
validator_vars ==
    <<crate, intent_event, escrow_event, registry, validation, fulfillment_tx,
      fulfillment_event>>
monitor_vars ==
    <<event_cache, escrow_cache, approvals, chain, pollers, applied, wall_clock,
      monitor_call>>
codec_vars == <<gmp_message, buffer, codec_out>>
normalizer_vars == <<lhs, rhs, normalized>>
evm_vars == <<evm_response, evm_tx, evm_out>>
vars ==
    <<escrow_vars, validator_vars, monitor_vars, codec_vars, normalizer_vars, evm_vars>>

\* What a validation reads
validator_inputs ==
    <<crate, intent_event, escrow_event, registry, fulfillment_tx, fulfillment_event>>

\* What the steps of one part leave alone: the variables of the other parts
outside_escrow == <<validator_vars, monitor_vars, codec_vars, normalizer_vars, evm_vars>>
outside_validator == <<escrow_vars, monitor_vars, codec_vars, normalizer_vars, evm_vars>>
outside_monitor == <<escrow_vars, validator_vars, codec_vars, normalizer_vars, evm_vars>>
outside_codec == <<validator_vars, monitor_vars, normalizer_vars, evm_vars>>
outside_normalizer == <<escrow_vars, validator_vars, monitor_vars, codec_vars, evm_vars>>
outside_evm == <<escrow_vars, validator_vars, monitor_vars, codec_vars, normalizer_vars>>

\* No validator runs
ValidatorIdle ==
    /\ crate = "none"
    /\ intent_event = <<>>
    /\ escrow_event = <<>>
    /\ registry = <<>>
    /\ validation = <<>>
    /\ fulfillment_tx = <<>>
    /\ fulfillment_event = <<>>

\* No event monitor runs
MonitorIdle ==
    /\ event_cache = <<>>
    /\ escrow_cache = <<>>
    /\ approvals = <<>>
    /\ chain = <<>>
    /\ pollers = <<>>
    /\ applied = {}
    /\ wall_clock = 0
    /\ monitor_call = <<>>

\* No message is being encoded or decoded
CodecIdle ==
    /\ gmp_message = <<>>
    /\ buffer = <<>>
    /\ codec_out = <<>>

\* No normalizer runs
NormalizerIdle ==
    /\ lhs = <<>>
    /\ rhs = <<>>
    /\ normalized = <<>>

\* No EVM reader runs
EvmIdle ==
    /\ evm_response = <<>>
    /\ evm_tx = <<>>
    /\ evm_out = <<>>

----------------------------------------------------------------------------
(* Bounds of the model *)

MaxTicks == 1
MaxAmount == 2

(* Program constants *)

DEFAULT_EXPIRY_DURATION == 120
INTENT_REQUIREMENTS_SIZE == 145
ESCROW_CONFIRMATION_SIZE == 137
FULFILLMENT_PROOF_SIZE == 81
DefaultPubkey == 0

(* The values the inputs are drawn from *)

IntentIds == {1, 2}
\* The intents whose instructions take every input below; the instructions of
\* the other intents are the sound ones only
Varied == {1}
Requesters == {1}
Solvers == {2}
Outsiders == {3}
TrustedRelays == {4}
Approvers == {5}
Mints == {6, 7}
Pubkeys == Requesters \cup Solvers \cup Outsiders \cup TrustedRelays \cup Approvers
Amounts == 0..MaxAmount
\* The clock readings of the model: the start, and the seconds from one
\* default expiry duration later on
Instants == {0} \cup {DEFAULT_EXPIRY_DURATION + t : t \in 0..MaxTicks}
\* The requester's token accounts hold tokens of these mints only
FundedMints == {6}
\* The set S with its members listed once and for all
Listed(S) == UNION {{x} : x \in S}
\* Option<i64> expiry_duration
None == [some |-> FALSE, value |-> 0]
Some(v) == [some |-> TRUE, value |-> v]

\* i64 values are written on a scale that keeps the values around zero and
\* the values at either end of the range and leaves out those in between,
\* which no timestamp and no sum of the model reaches: I64Max stands for
\* i64::MAX, I64Max - k for i64::MAX - k, I64Min + k for i64::MIN + k.  The
\* scale keeps the order, and a sum that passes one end comes back in at the
\* other as it does in 64 bits.
I64Max == 2^30 - 1
I64Min == -(2^30)

Durations == {None} \cup {Some(v) : v \in {0, -1, 1, I64Max}}

----------------------------------------------------------------------------
(* GMP wire format: gmp-common/src/messages.rs *)

RECURSIVE ToBeBytes(_, _)
\* n as w big-endian bytes (u64::to_be_bytes for w = 8; the identity on a
\* 32-byte array for w = 32)
ToBeBytes(n, w) ==
    IF w = 0 THEN <<>> ELSE Append(ToBeBytes(n \div 256, w - 1), n % 256)

RECURSIVE FromBeBytes(_)
\* u64::from_be_bytes, and the value of a 32-byte array.  A value of the upper
\* half of the width is written as the integer congruent to it modulo 2^(8w)
\* that is nearest to zero (u64::MAX is -1), which to_be_bytes and
\* from_be_bytes above and here take to and from the same bytes
FromBeBytes(b) ==
    IF b = <<>> THEN 0
    ELSE IF b[1] >= 128
    THEN -(FromBeBytes([k \in DOMAIN b |-> 255 - b[k]]) + 1)
    ELSE FromBeBytes(SubSeq(b, 1, Len(b) - 1)) * 256 + b[Len(b)]

\* Rust's data[a..b]: bytes a .. b-1, counted from 0
Slice(data, a, b) == SubSeq(data, a + 1, b)

IntentRequirementsEncode(m) ==
    <<1>> \o ToBeBytes(m.intent_id, 32) \o ToBeBytes(m.requester_addr, 32)
          \o ToBeBytes(m.amount_required, 8) \o ToBeBytes(m.token_addr, 32)
          \o ToBeBytes(m.solver_addr, 32) \o ToBeBytes(m.expiry, 8)

\* IntentRequirements::decode, were it to look at the discriminator before the
\* length
IntentRequirementsDecodeTypeFirst(data) ==
    IF data # <<>> /\ data[1] # 1
    THEN [ok |-> FALSE, err |-> "InvalidMessageType", expected |-> 1, got |-> data[1]]
    ELSE IF Len(data) # INTENT_REQUIREMENTS_SIZE
    THEN [ok |-> FALSE, err |-> "InvalidLength",
          expected |-> INTENT_REQUIREMENTS_SIZE, got |-> Len(data)]
    ELSE [ok |-> TRUE,
          intent_id |-> FromBeBytes(Slice(data, 1, 33)),
          requester_addr |-> FromBeBytes(Slice(data, 33, 65)),
          amount_required |-> FromBeBytes(Slice(data, 65, 73)),
          token_addr |-> FromBeBytes(Slice(data, 73, 105)),
          solver_addr |-> FromBeBytes(Slice(data, 105, 137)),
          expiry |-> FromBeBytes(Slice(data, 137, 145))]

IntentRequirementsDecode(data) ==
    IF Len(data) # INTENT_REQUIREMENTS_SIZE
    THEN [ok |-> FALSE, err |-> "InvalidLength",
          expected |-> INTENT_REQUIREMENTS_SIZE, got |-> Len(data)]
    ELSE IF data[1] # 1
    THEN [ok |-> FALSE, err |-> "InvalidMessageType", expected |-> 1, got |-> data[1]]
    ELSE [ok |-> TRUE,
          intent_id |-> FromBeBytes(Slice(data, 1, 33)),
          requester_addr |-> FromBeBytes(Slice(data, 33, 65)),
          amount_required |-> FromBeBytes(Slice(data, 65, 73)),
          token_addr |-> FromBeBytes(Slice(data, 73, 105)),
          solver_addr |-> FromBeBytes(Slice(data, 105, 137)),
          expiry |-> FromBeBytes(Slice(data, 137, 145))]

EscrowConfirmationEncode(m) ==
    <<2>> \o ToBeBytes(m.intent_id, 32) \o ToBeBytes(m.escrow_id, 32)
          \o ToBeBytes(m.amount_escrowed, 8) \o ToBeBytes(m.token_addr, 32)
          \o ToBeBytes(m.creator_addr, 32)

EscrowConfirmationDecode(data) ==
    IF Len(data) # ESCROW_CONFIRMATION_SIZE
    THEN [ok |-> FALSE, err |-> "InvalidLength",
          expected |-> ESCROW_CONFIRMATION_SIZE, got |-> Len(data)]
    ELSE IF data[1] # 2
    THEN [ok |-> FALSE, err |-> "InvalidMessageType", expected |-> 2, got |-> data[1]]
    ELSE [ok |-> TRUE,
          intent_id |-> FromBeBytes(Slice(data, 1, 33)),
          escrow_id |-> FromBeBytes(Slice(data, 33, 65)),
          amount_escrowed |-> FromBeBytes(Slice(data, 65, 73)),
          token_addr |-> FromBeBytes(Slice(data, 73, 105)),
          creator_addr |-> FromBeBytes(Slice(data, 105, 137))]

FulfillmentProofEncode(m) ==
    <<3>> \o ToBeBytes(m.intent_id, 32) \o ToBeBytes(m.solver_addr, 32)
          \o ToBeBytes(m.amount_fulfilled, 8) \o ToBeBytes(m.timestamp, 8)

\* FulfillmentProof::decode, were it to read the first 81 bytes of any buffer
\* that long, whatever its discriminator
FulfillmentProofDecodeLenient(data) ==
    IF Len(data) < FULFILLMENT_PROOF_SIZE
    THEN [ok |-> FALSE, err |-> "InvalidLength",
          expected |-> FULFILLMENT_PROOF_SIZE, got |-> Len(data)]
    ELSE [ok |-> TRUE,
          intent_id |-> FromBeBytes(Slice(data, 1, 33)),
          solver_addr |-> FromBeBytes(Slice(data, 33, 65)),
          amount_fulfilled |-> FromBeBytes(Slice(data, 65, 73)),
          timestamp |-> FromBeBytes(Slice(data, 73, 81))]

\* FulfillmentProof::decode, were it to read the two u64 fields from each
\* other's bytes
FulfillmentProofDecodeSwapped(data) ==
    IF Len(data) # FULFILLMENT_PROOF_SIZE
    THEN [ok |-> FALSE, err |-> "InvalidLength",
          expected |-> FULFILLMENT_PROOF_SIZE, got |-> Len(data)]
    ELSE IF data[1] # 3
    THEN [ok |-> FALSE, err |-> "InvalidMessageType", expected |-> 3, got |-> data[1]]
    ELSE [ok |-> TRUE,
          intent_id |-> FromBeBytes(Slice(data, 1, 33)),
          solver_addr |-> FromBeBytes(Slice(data, 33, 65)),
          amount_fulfilled |-> FromBeBytes(Slice(data, 73, 81)),
          timestamp |-> FromBeBytes(Slice(data, 65, 73))]

FulfillmentProofDecode(data) ==
    IF Len(data) # FULFILLMENT_PROOF_SIZE
    THEN [ok |-> FALSE, err |-> "InvalidLength",
          expected |-> FULFILLMENT_PROOF_SIZE, got |-> Len(data)]
    ELSE IF data[1] # 3
    THEN [ok |-> FALSE, err |-> "InvalidMessageType", expected |-> 3, got |-> data[1]]
    ELSE [ok |-> TRUE,
          intent_id |-> FromBeBytes(Slice(data, 1, 33)),
          solver_addr |-> FromBeBytes(Slice(data, 33, 65)),
          amount_fulfilled |-> FromBeBytes(Slice(data, 65, 73)),
          timestamp |-> FromBeBytes(Slice(data, 73, 81))]

\* The messages the hub sends in the model
RequirementsMessages ==
    {m \in [intent_id : IntentIds, requester_addr : Requesters,
            amount_required : 1..MaxAmount, token_addr : {6}, solver_addr : Solvers,
            expiry : {DEFAULT_EXPIRY_DURATION}] :
        m.intent_id \in Varied \/ m.amount_required = MaxAmount}

ProofMessages ==
    [intent_id : IntentIds, solver_addr : Solvers, amount_fulfilled : {MaxAmount},
     timestamp : {1}]

ConfirmationMessages ==
    [intent_id : {1}, escrow_id : {1}, amount_escrowed : {1}, token_addr : {6},
     creator_addr : Requesters]

\* Payloads a relay can deliver: the encoded messages of the three kinds, one
\* message of each intake kind cut short by one byte, and the empty payload
WellFormedPayloads ==
    {IntentRequirementsEncode(m) : m \in RequirementsMessages}
    \cup {FulfillmentProofEncode(m) : m \in ProofMessages}
    \cup {EscrowConfirmationEncode(m) : m \in ConfirmationMessages}

TruncatedPayloads ==
    {SubSeq(p, 1, Len(p) - 1) :
        p \in {IntentRequirementsEncode(m) :
                  m \in {r \in RequirementsMessages :
                            r.intent_id = 1 /\ r.amount_required = 1}}
              \cup {FulfillmentProofEncode(m) :
                  m \in {r \in ProofMessages : r.intent_id = 1}}}

Payloads == Listed(WellFormedPayloads \cup TruncatedPayloads \cup {<<>>})

\* Each payload with what IntentRequirements::decode / FulfillmentProof::decode
\* makes of it
RequirementsDeliveries ==
    Listed({<<p, IntentRequirementsDecode(p)>> : p \in Payloads})
ProofDeliveries ==
    Listed({<<p, FulfillmentProofDecode(p)>> : p \in Payloads})

----------------------------------------------------------------------------
(* Accounts *)

\* An escrow PDA that holds no data yet (data_len() == 0)
EmptyEscrow ==
    [exists |-> FALSE, requester |-> DefaultPubkey, token_mint |-> DefaultPubkey,
     amount |-> 0, is_claimed |-> FALSE, expiry |-> 0,
     reserved_solver |-> DefaultPubkey, intent_id |-> 0]

\* A requirements PDA that holds no data yet
EmptyRequirements ==
    [exists |-> FALSE, intent_id |-> 0, requester_addr |-> DefaultPubkey,
     amount_required |-> 0, token_addr |-> DefaultPubkey,
     solver_addr |-> DefaultPubkey, expiry |-> 0,
     escrow_created |-> FALSE, fulfilled |-> FALSE]

\* Escrow::new of the native program (state.rs)
EscrowNew(requester, token_mint, amount, expiry, reserved_solver, intent_id) ==
    [exists |-> TRUE, requester |-> requester, token_mint |-> token_mint,
     amount |-> amount, is_claimed |-> FALSE, expiry |-> expiry,
     reserved_solver |-> reserved_solver, intent_id |-> intent_id]

\* StoredIntentRequirements::new of the native program (state.rs)
StoredIntentRequirementsNew(m) ==
    [exists |-> TRUE, intent_id |-> m.intent_id, requester_addr |-> m.requester_addr,
     amount_required |-> m.amount_required, token_addr |-> m.token_addr,
     solver_addr |-> m.solver_addr, expiry |-> m.expiry,
     escrow_created |-> FALSE, fulfilled |-> FALSE]

\* No account passed where the instruction takes an optional one
NoAccount == DefaultPubkey

\* What `last` records of the instruction that succeeded last (a failed one
\* changes nothing): the instruction, the intent id it names, the key and the
\* is_signer flag of its requester / gmp_caller account, the owner of the
\* token account that received a transfer, and the (public key, message) the
\* Ed25519 program verified for a Claim
Outcome(op, id, who, signed, dest, vpk, vmsg) ==
    [op |-> op, id |-> id, who |-> who, signed |-> signed,
     dest |-> dest, vpk |-> vpk, vmsg |-> vmsg]

NoOutcome(op) == Outcome(op, 0, DefaultPubkey, FALSE, DefaultPubkey, DefaultPubkey, 0)

\* One transfer out of a vault: the owner of the token account credited, the
\* amount, and the instruction that made it
Transfer(to, amount, by) == [to |-> to, amount |-> amount, by |-> by]

----------------------------------------------------------------------------
(* Guards shared by the handlers' translations *)

\* expiry_duration.unwrap_or(DEFAULT), then the fallback for a non-positive one
EffectiveDuration(expiry_duration) ==
    LET duration == IF expiry_duration.some THEN expiry_duration.value
                    ELSE DEFAULT_EXPIRY_DURATION
    IN  IF duration <= 0 THEN DEFAULT_EXPIRY_DURATION ELSE duration

\* a + b in i64 as a build without overflow checks computes it
I64WrappingAdd(a, b) ==
    LET sum == a + b
    IN  IF sum > I64Max THEN I64Min + (sum - I64Max - 1)
        ELSE IF sum < I64Min THEN I64Max - (I64Min - sum - 1)
        ELSE sum

\* clock.unix_timestamp + duration: the sum when it fits an i64.  When it does
\* not, a build with overflow checks panics (None) and a build without them
\* wraps; the build profile is not part of the sources, so both may happen
CreateExpiries(unix_timestamp, expiry_duration) ==
    LET duration == EffectiveDuration(expiry_duration)
        sum == unix_timestamp + duration
    IN  IF I64Min <= sum /\ sum <= I64Max THEN {Some(sum)}
        ELSE {None, Some(I64WrappingAdd(unix_timestamp, duration))}

\* Claim's expiry guard: clock.unix_timestamp > escrow.expiry
NativeClaimExpired(t, expiry) == t > expiry

\* Cancel's expiry guard with the comparison strict: expiry itself cancels
NativeCancelTooEarlyStrict(t, expiry) == t < expiry

\* A Cancel guard that finds every escrow too early to cancel
NativeCancelAlwaysTooEarly(t, expiry) == TRUE

\* Cancel's expiry guard: clock.unix_timestamp <= escrow.expiry
NativeCancelTooEarly(t, expiry) == t <= expiry

\* A create that takes every escrow PDA for empty
NativeEscrowAccountNeverInUse(escrow) == FALSE

\* create's check that the escrow PDA holds no data yet: data_len() > 0 fails
NativeEscrowAccountInUse(escrow) == escrow.exists

\* An is_claimed guard that lets every escrow through
NativeNeverClaimed(escrow) == FALSE

\* The is_claimed guard of process_claim, process_cancel and
\* process_lz_receive_fulfillment_proof
NativeAlreadyClaimed(escrow) == escrow.is_claimed

\* A fulfilled guard that lets every proof through
NativeProofNeverReplayed(req) == FALSE

\* The fulfilled guard of process_lz_receive_fulfillment_proof
NativeProofReplayed(req) == req.fulfilled

\* The requirements guard that takes every requirements PDA for an empty one
NativeRequirementsAccountNeverInUse(req) == FALSE

\* process_lz_receive_requirements: requirements_account.data_len() > 0
NativeRequirementsAccountInUse(req) == req.exists

\* The check the intake handlers make of the gmp_caller account
NativeGmpCallerAccepted(gmp_caller) == gmp_caller.is_signer

\* spl_token transfer: source and destination must be of the same mint
TokenTransferAccepted(vault_mint, dest) == dest.mint = vault_mint

----------------------------------------------------------------------------
(* The native program: processor.rs *)

\* process_create_escrow without its checks of the amount and the solver
NativeCreateResultUnvalidated(i) ==
    LET req == requirements[i.intent_id]
        checked == /\ i.requirements_account # NoAccount
                   /\ i.requirements_account = i.intent_id
                   /\ req.exists
    IN  IF ~i.requester.is_signer THEN "MissingRequiredSignature"
        ELSE IF checked /\ req.escrow_created THEN "EscrowAlreadyCreated"
        ELSE IF checked /\ i.amount < req.amount_required THEN "AmountMismatch"
        ELSE IF checked /\ i.token_mint # req.token_addr THEN "TokenMismatch"
        ELSE IF i.escrow_account # i.intent_id THEN "InvalidPDA"
        ELSE IF NativeEscrowAccountInUse(escrows[i.intent_id])
        THEN "EscrowAlreadyExists"
        ELSE IF i.token_mint \notin FundedMints THEN "InsufficientFunds"
        ELSE "Ok"

\* process_create_escrow up to its last check: "Ok" or the first error.
\* i: the instruction's arguments and accounts. The escrow and vault accounts
\* are named by the intent id whose PDA they are.
NativeCreateResult(i) ==
    LET req == requirements[i.intent_id]
        checked == /\ i.requirements_account # NoAccount
                   /\ i.requirements_account = i.intent_id
                   /\ req.exists
    IN  IF i.amount = 0 THEN "InvalidAmount"
        ELSE IF i.reserved_solver = DefaultPubkey THEN "InvalidSolver"
        ELSE IF ~i.requester.is_signer THEN "MissingRequiredSignature"
        ELSE IF checked /\ req.escrow_created THEN "EscrowAlreadyCreated"
        ELSE IF checked /\ i.amount < req.amount_required THEN "AmountMismatch"
        ELSE IF checked /\ i.token_mint # req.token_addr THEN "TokenMismatch"
        ELSE IF i.escrow_account # i.intent_id THEN "InvalidPDA"
        ELSE IF NativeEscrowAccountInUse(escrows[i.intent_id])
        THEN "EscrowAlreadyExists"
        ELSE IF i.token_mint \notin FundedMints THEN "InsufficientFunds"
        ELSE "Ok"

NativeCreateEscrow(i) ==
    LET res == NativeCreateResult(i)
        id == i.intent_id
        marks == /\ i.requirements_account = id
                 /\ requirements[id].exists
    IN  /\ program = "native"
        /\ \E expiry \in CreateExpiries(now, i.expiry_duration) :
              IF res = "Ok" /\ expiry.some
              THEN /\ escrows' = [escrows EXCEPT ![id] =
                         EscrowNew(i.requester.key, i.token_mint, i.amount,
                                   expiry.value, i.reserved_solver, id)]
                   /\ vault' = [vault EXCEPT ![id] = @ + i.amount]
                   /\ requirements' =
                         IF marks
                         THEN [requirements EXCEPT ![id].escrow_created = TRUE]
                         ELSE requirements
                   /\ last' = Outcome("CreateEscrow", id, i.requester.key,
                                      i.requester.is_signer, DefaultPubkey,
                                      DefaultPubkey, 0)
                   /\ UNCHANGED <<outside_escrow, program, now, state, payouts, issued>>
              ELSE UNCHANGED vars

\* process_claim: "Ok" or the first error
NativeClaimResult(i) ==
    LET req == requirements[i.intent_id]
        escrow == escrows[i.escrow_account]
    IN  IF i.requirements_account # i.intent_id THEN "InvalidPDA"
        ELSE IF ~req.exists THEN "RequirementsNotFound"
        ELSE IF ~req.fulfilled THEN "AlreadyFulfilled"
        ELSE IF ~escrow.exists THEN "BorshIoError"
        ELSE IF escrow.intent_id # i.intent_id THEN "EscrowDoesNotExist"
        ELSE IF NativeAlreadyClaimed(escrow) THEN "EscrowAlreadyClaimed"
        ELSE IF escrow.amount = 0 THEN "NoDeposit"
        ELSE IF NativeClaimExpired(now, escrow.expiry) THEN "EscrowExpired"
        ELSE IF ~TokenTransferAccepted(escrow.token_mint, i.dest) THEN "MintMismatch"
        ELSE "Ok"

\* A release that makes the transfer and leaves the escrow record as it was
NativeTransferOnly(acct, dest, by) ==
    /\ payouts' = [payouts EXCEPT ![acct] =
                      Append(@, Transfer(dest.owner, escrows[acct].amount, by))]
    /\ vault' = [vault EXCEPT ![acct] = @ - escrows[acct].amount]
    /\ escrows' = escrows

\* A release that makes the transfer and sets is_claimed, keeping the amount
NativeReleaseKeepingAmount(acct, dest, by) ==
    /\ payouts' = [payouts EXCEPT ![acct] =
                      Append(@, Transfer(dest.owner, escrows[acct].amount, by))]
    /\ vault' = [vault EXCEPT ![acct] = @ - escrows[acct].amount]
    /\ escrows' = [escrows EXCEPT ![acct].is_claimed = TRUE]

\* The release both process_claim and process_lz_receive_fulfillment_proof
\* make: transfer escrow.amount from the vault to the token account handed in,
\* then is_claimed = true, amount = 0
NativeRelease(acct, dest, by) ==
    /\ payouts' = [payouts EXCEPT ![acct] =
                      Append(@, Transfer(dest.owner, escrows[acct].amount, by))]
    /\ vault' = [vault EXCEPT ![acct] = @ - escrows[acct].amount]
    /\ escrows' = [escrows EXCEPT ![acct].is_claimed = TRUE, ![acct].amount = 0]

NativeClaim(i) ==
    LET res == NativeClaimResult(i)
    IN  /\ program = "native"
        /\ IF res = "Ok"
           THEN /\ NativeRelease(i.escrow_account, i.dest, "Claim")
                /\ last' = Outcome("Claim", i.intent_id, DefaultPubkey, FALSE,
                                   i.dest.owner, DefaultPubkey, 0)
                /\ UNCHANGED <<outside_escrow, program, now, state, requirements, issued>>
           ELSE UNCHANGED vars

\* process_cancel: "Ok" or the first error
NativeCancelResult(i) ==
    LET escrow == escrows[i.escrow_account]
    IN  IF ~escrow.exists THEN "BorshIoError"
        ELSE IF escrow.intent_id # i.intent_id THEN "EscrowDoesNotExist"
        ELSE IF NativeAlreadyClaimed(escrow) THEN "EscrowAlreadyClaimed"
        ELSE IF escrow.amount = 0 THEN "NoDeposit"
        ELSE IF escrow.requester # i.requester.key THEN "UnauthorizedRequester"
        ELSE IF ~i.requester.is_signer THEN "MissingRequiredSignature"
        ELSE IF NativeCancelTooEarly(now, escrow.expiry) THEN "EscrowNotExpiredYet"
        ELSE IF ~TokenTransferAccepted(escrow.token_mint, i.dest) THEN "MintMismatch"
        ELSE "Ok"

NativeCancel(i) ==
    LET res == NativeCancelResult(i)
    IN  /\ program = "native"
        /\ IF res = "Ok"
           THEN /\ NativeRelease(i.escrow_account, i.dest, "Cancel")
                /\ last' = Outcome("Cancel", i.intent_id, i.requester.key,
                                   i.requester.is_signer, i.dest.owner,
                                   DefaultPubkey, 0)
                /\ UNCHANGED <<outside_escrow, program, now, state, requirements, issued>>
           ELSE UNCHANGED vars

\* process_lz_receive_requirements: "Ok" or the first error.
\* m: what IntentRequirements::decode made of the payload
NativeReceiveRequirementsResult(i, m) ==
    IF ~NativeGmpCallerAccepted(i.gmp_caller) THEN "UnauthorizedGmpSource"
    ELSE IF ~m.ok THEN "InvalidGmpMessage"
    ELSE IF i.requirements_account # m.intent_id THEN "InvalidPDA"
    ELSE IF NativeRequirementsAccountInUse(requirements[m.intent_id])
    THEN "RequirementsAlreadyExist"
    ELSE "Ok"

NativeLzReceiveRequirements(i, m) ==
        LET res == NativeReceiveRequirementsResult(i, m)
        IN  /\ program = "native"
            /\ IF res = "Ok"
               THEN /\ requirements' = [requirements EXCEPT ![m.intent_id] =
                                               StoredIntentRequirementsNew(m)]
                    /\ last' = Outcome("LzReceiveRequirements", m.intent_id,
                                       i.gmp_caller.key, i.gmp_caller.is_signer,
                                       DefaultPubkey, DefaultPubkey, 0)
                    /\ UNCHANGED <<outside_escrow, program, now, state, escrows, vault, payouts,
                                   issued>>
               ELSE UNCHANGED vars

\* process_lz_receive_fulfillment_proof: "Ok" or the first error.
\* m: what FulfillmentProof::decode made of the payload
NativeReceiveFulfillmentProofResult(i, m) ==
    IF ~NativeGmpCallerAccepted(i.gmp_caller) THEN "UnauthorizedGmpSource"
    ELSE IF ~m.ok THEN "InvalidGmpMessage"
    ELSE IF i.requirements_account # m.intent_id THEN "InvalidPDA"
    ELSE IF ~requirements[m.intent_id].exists THEN "RequirementsNotFound"
    ELSE IF NativeProofReplayed(requirements[m.intent_id]) THEN "AlreadyFulfilled"
    ELSE IF ~escrows[i.escrow_account].exists THEN "BorshIoError"
    ELSE IF escrows[i.escrow_account].intent_id # m.intent_id THEN "EscrowDoesNotExist"
    ELSE IF NativeAlreadyClaimed(escrows[i.escrow_account])
    THEN "EscrowAlreadyClaimed"
    ELSE IF escrows[i.escrow_account].amount = 0 THEN "NoDeposit"
    ELSE IF ~TokenTransferAccepted(escrows[i.escrow_account].token_mint, i.dest)
    THEN "MintMismatch"
    ELSE "Ok"

NativeLzReceiveFulfillmentProof(i, m) ==
        LET res == NativeReceiveFulfillmentProofResult(i, m)
        IN  /\ program = "native"
            /\ IF res = "Ok"
               THEN /\ NativeRelease(i.escrow_account, i.dest,
                                     "LzReceiveFulfillmentProof")
                    /\ requirements' =
                          [requirements EXCEPT ![m.intent_id].fulfilled = TRUE]
                    /\ last' = Outcome("LzReceiveFulfillmentProof", m.intent_id,
                                       i.gmp_caller.key, i.gmp_caller.is_signer,
                                       i.dest.owner, DefaultPubkey, 0)
                    /\ UNCHANGED <<outside_escrow, program, now, state, issued>>
               ELSE UNCHANGED vars

----------------------------------------------------------------------------
(* The Anchor program: svm-intent-framework lib.rs *)

\* An Ed25519 signature is written as the pair it is valid for: the key that
\* made it and the message it signs. NoSignature is 64 bytes that are the
\* signature of nothing.
Sig(key, msg) == [by |-> key, over |-> msg]
NoSignature == Sig(DefaultPubkey, 0)
Signatures == {Sig(k, m) : k \in Approvers \cup Outsiders, m \in IntentIds}
                 \cup {NoSignature}

\* Ed25519 verification of one (public key, signature, message)
Ed25519Verifies(pubkey, signature, message) ==
    /\ signature # NoSignature
    /\ signature.by = pubkey
    /\ signature.over = message

\* The instruction at index 0 of the transaction that carries a Claim.
\* program_id: the program it invokes. Its data is
\*   [num_signatures u8][padding u8][offsets: 7 x u16][bytes ...]
\* with the offsets signature_offset, signature_instruction_index,
\* public_key_offset, public_key_instruction_index, message_data_offset,
\* message_data_size, message_instruction_index. data_len, num_signatures and
\* the four offsets/size are the numbers in the data; pubkey, signature and
\* message are the bytes of THIS instruction's data at those offsets; refs says
\* which instruction the three *_instruction_index fields name: "this" one
\* (u16::MAX) or an "other" instruction of the transaction, whose bytes at the
\* offsets are other_pubkey, other_signature and other_message.
EdLayout(program_id, data_len, num, pubkey, signature, message, refs, other) ==
    [program_id |-> program_id, data_len |-> data_len, num_signatures |-> num,
     signature_offset |-> 48, public_key_offset |-> 16,
     message_data_offset |-> 112, message_data_size |-> 32,
     pubkey |-> pubkey, signature |-> signature, message |-> message,
     refs |-> refs,
     other_pubkey |-> other[1], other_signature |-> other[2],
     other_message |-> other[3]]

NoOther == <<DefaultPubkey, NoSignature, 0>>

\* What an outsider can have the Ed25519 program verify in place of the bytes
\* the Claim reads: a signature of its own over a message of its own
OutsiderTriples == {<<k, Sig(k, 1), 1>> : k \in Outsiders}

EdInstructions ==
    Listed(
        \* some other program's instruction
        {EdLayout("OtherProgram", 144, 1, k, Sig(k, 1), 1, "this", NoOther) :
            k \in Outsiders}
        \* new_ed25519_instruction_with_signature(message, signature, pubkey)
        \cup {EdLayout("Ed25519Program", 144, 1, sg.by, sg, sg.over, "this", NoOther) :
                sg \in Signatures \ {NoSignature}}
        \* a signature that does not verify
        \cup {EdLayout("Ed25519Program", 144, 1, k, NoSignature, m, "this", NoOther) :
                k \in Approvers, m \in IntentIds}
        \* a signature over another message than the one in the data
        \cup {EdLayout("Ed25519Program", 144, 1, k, Sig(k, 1), 2, "this", NoOther) :
                k \in Approvers}
        \* the offsets point into another instruction's data
        \cup {EdLayout("Ed25519Program", 144, 1, k, sg, m, "other", o) :
                k \in Approvers \cup Outsiders, sg \in {NoSignature}, m \in IntentIds,
                o \in OutsiderTriples}
        \* the same, with nothing but the header in this instruction's data
        \cup {EdLayout("Ed25519Program", 16, 1, DefaultPubkey, NoSignature, 0, "other", o) :
                o \in OutsiderTriples})

\* The (pubkey, signature, message) the Ed25519 program checks for the first
\* signature of ix: the bytes at the offsets of the instruction the
\* *_instruction_index fields name
EdReferenced(ix) ==
    IF ix.refs = "this" THEN <<ix.pubkey, ix.signature, ix.message>>
    ELSE <<ix.other_pubkey, ix.other_signature, ix.other_message>>

\* The runtime runs the transaction's instructions only if every Ed25519
\* program instruction in it verifies
PrecompileAccepts(ix) ==
    \/ ix.program_id # "Ed25519Program"
    \/ Ed25519Verifies(EdReferenced(ix)[1], EdReferenced(ix)[2], EdReferenced(ix)[3])

\* Signatures of the approver exist only over what the approver has signed
Obtainable(signature) ==
    signature.by \in Approvers => signature.over \in issued

\* claim's introspection of the instruction at index 0 (lib.rs 147-207):
\* "Ok" or the first error
AnchorSignatureResult(ix, intent_id, signature, verifier) ==
    IF ix.program_id # "Ed25519Program" THEN "InvalidSignature"
    ELSE IF ~(ix.data_len >= 16) THEN "InvalidSignature"
    ELSE IF ~(ix.num_signatures >= 1) THEN "InvalidSignature"
    ELSE IF ~(ix.data_len >= ix.signature_offset + 64) THEN "InvalidSignature"
    ELSE IF ~(ix.data_len >= ix.public_key_offset + 32) THEN "InvalidSignature"
    ELSE IF ~(ix.data_len >= ix.message_data_offset + ix.message_data_size)
    THEN "InvalidSignature"
    ELSE IF ix.pubkey # verifier THEN "UnauthorizedVerifier"
    ELSE IF ix.signature # signature THEN "InvalidSignature"
    ELSE IF ix.message # intent_id THEN "InvalidSignature"
    ELSE "Ok"

\* claim's expiry guard with the comparison strict: expiry itself is too late
AnchorClaimNotExpiredStrict(t, expiry) == t < expiry

\* claim's expiry guard: require!(clock.unix_timestamp <= escrow.expiry)
AnchorClaimNotExpired(t, expiry) == t <= expiry

\* cancel's expiry guard: require!(clock.unix_timestamp > escrow.expiry)
AnchorCancelExpired(t, expiry) == t > expiry

\* The constraints of Claim's solver_token_account
AnchorSolverAccountAccepted(escrow, dest) ==
    /\ dest.owner = escrow.reserved_solver
    /\ dest.mint = escrow.token_mint

\* The constraints of Cancel's requester_token_account
AnchorRequesterAccountAccepted(escrow, requester, dest) ==
    /\ dest.owner = requester.key
    /\ dest.mint = escrow.token_mint

\* create_escrow behind the CreateEscrow accounts: "Ok" or the first error
AnchorCreateResult(i) ==
    IF ~i.requester.is_signer THEN "AccountNotSigner"
    ELSE IF i.escrow_account # i.intent_id THEN "ConstraintSeeds"
    ELSE IF escrows[i.intent_id].exists THEN "AccountAlreadyInUse"
    ELSE IF ~(i.amount > 0) THEN "InvalidAmount"
    ELSE IF ~(i.reserved_solver # DefaultPubkey) THEN "InvalidSolver"
    ELSE IF i.token_mint \notin FundedMints THEN "InsufficientFunds"
    ELSE "Ok"

AnchorCreateEscrow(i) ==
    LET res == AnchorCreateResult(i)
        id == i.intent_id
    IN  /\ program = "anchor"
        /\ \E expiry \in CreateExpiries(now, i.expiry_duration) :
              IF res = "Ok" /\ expiry.some
              THEN /\ escrows' = [escrows EXCEPT ![id] =
                         [exists |-> TRUE, requester |-> i.requester.key,
                          token_mint |-> i.token_mint, amount |-> i.amount,
                          is_claimed |-> FALSE, expiry |-> expiry.value,
                          reserved_solver |-> i.reserved_solver, intent_id |-> id]]
                   /\ vault' = [vault EXCEPT ![id] = @ + i.amount]
                   /\ last' = Outcome("CreateEscrow", id, i.requester.key,
                                      i.requester.is_signer, DefaultPubkey,
                                      DefaultPubkey, 0)
                   /\ UNCHANGED <<outside_escrow, program, now, state, requirements, payouts, issued>>
              ELSE UNCHANGED vars

\* claim behind the Claim accounts: "Ok" or the first error
AnchorClaimResult(i) ==
    LET escrow == escrows[i.escrow_account]
    IN  IF ~PrecompileAccepts(i.ed) THEN "PrecompileVerificationFailed"
        ELSE IF ~escrow.exists THEN "AccountNotInitialized"
        ELSE IF ~state.exists THEN "AccountNotInitialized"
        ELSE IF i.escrow_account # i.intent_id THEN "ConstraintSeeds"
        ELSE IF ~AnchorSolverAccountAccepted(escrow, i.dest) THEN "ConstraintRaw"
        ELSE IF ~(escrow.intent_id = i.intent_id) THEN "EscrowDoesNotExist"
        ELSE IF ~(~escrow.is_claimed) THEN "EscrowAlreadyClaimed"
        ELSE IF ~(escrow.amount > 0) THEN "NoDeposit"
        ELSE IF ~AnchorClaimNotExpired(now, escrow.expiry) THEN "EscrowExpired"
        ELSE AnchorSignatureResult(i.ed, i.intent_id, i.signature, state.approver)

\* A release of the Anchor program that sets is_claimed and keeps the amount
AnchorReleaseKeepingAmount(acct, dest, by) ==
    /\ payouts' = [payouts EXCEPT ![acct] =
                      Append(@, Transfer(dest.owner, escrows[acct].amount, by))]
    /\ vault' = [vault EXCEPT ![acct] = @ - escrows[acct].amount]
    /\ escrows' = [escrows EXCEPT ![acct].is_claimed = TRUE]

\* The release claim and cancel make: is_claimed = true, amount = 0, and the
\* transfer of the amount captured before to the token account handed in
AnchorRelease(acct, dest, by) ==
    /\ payouts' = [payouts EXCEPT ![acct] =
                      Append(@, Transfer(dest.owner, escrows[acct].amount, by))]
    /\ vault' = [vault EXCEPT ![acct] = @ - escrows[acct].amount]
    /\ escrows' = [escrows EXCEPT ![acct].is_claimed = TRUE, ![acct].amount = 0]

AnchorClaim(i) ==
    LET res == AnchorClaimResult(i)
        v == EdReferenced(i.ed)
    IN  /\ program = "anchor"
        /\ Obtainable(i.signature)
        /\ Obtainable(i.ed.signature)
        /\ Obtainable(i.ed.other_signature)
        /\ IF res = "Ok"
           THEN /\ AnchorRelease(i.escrow_account, i.dest, "Claim")
                /\ last' = Outcome("Claim", i.intent_id, DefaultPubkey, FALSE,
                                   i.dest.owner, v[1], v[3])
                /\ UNCHANGED <<outside_escrow, program, now, state, requirements, issued>>
           ELSE UNCHANGED vars

\* cancel behind the Cancel accounts: "Ok" or the first error
AnchorCancelResult(i) ==
    LET escrow == escrows[i.escrow_account]
    IN  IF ~escrow.exists THEN "AccountNotInitialized"
        ELSE IF ~i.requester.is_signer THEN "AccountNotSigner"
        ELSE IF i.escrow_account # i.intent_id THEN "ConstraintSeeds"
        ELSE IF ~(escrow.requester = i.requester.key) THEN "ConstraintRaw"
        ELSE IF ~AnchorRequesterAccountAccepted(escrow, i.requester, i.dest)
        THEN "ConstraintRaw"
        ELSE IF ~(escrow.intent_id = i.intent_id) THEN "EscrowDoesNotExist"
        ELSE IF ~(~escrow.is_claimed) THEN "EscrowAlreadyClaimed"
        ELSE IF ~(escrow.amount > 0) THEN "NoDeposit"
        ELSE IF ~(escrow.requester = i.requester.key) THEN "UnauthorizedRequester"
        ELSE IF ~AnchorCancelExpired(now, escrow.expiry) THEN "EscrowNotExpiredYet"
        ELSE "Ok"

AnchorCancel(i) ==
    LET res == AnchorCancelResult(i)
    IN  /\ program = "anchor"
        /\ IF res = "Ok"
           THEN /\ AnchorRelease(i.escrow_account, i.dest, "Cancel")
                /\ last' = Outcome("Cancel", i.intent_id, i.requester.key,
                                   i.requester.is_signer, i.dest.owner,
                                   DefaultPubkey, 0)
                /\ UNCHANGED <<outside_escrow, program, now, state, requirements, issued>>
           ELSE UNCHANGED vars

----------------------------------------------------------------------------
(* Both programs *)

\* initialize / process_initialize: the state PDA is created once
InitializeResult == IF state.exists THEN "AccountAlreadyInUse" ELSE "Ok"

Initialize(approver) ==
    IF InitializeResult = "Ok"
    THEN /\ state' = [exists |-> TRUE, approver |-> approver]
         /\ last' = Outcome("Initialize", 0, approver, FALSE, DefaultPubkey,
                            DefaultPubkey, 0)
         /\ UNCHANGED <<outside_escrow, program, now, escrows, requirements, vault, payouts, issued>>
    ELSE UNCHANGED vars

\* The approver service signs the intent id of a fulfilled intent
ApproverSigns(id) ==
    /\ program = "anchor"
    /\ id \notin issued
    /\ issued' = issued \cup {id}
    /\ last' = Outcome("ApproverSigns", id, DefaultPubkey, FALSE, DefaultPubkey,
                       DefaultPubkey, 0)
    /\ UNCHANGED <<outside_escrow, program, now, state, escrows, requirements, vault, payouts>>

----------------------------------------------------------------------------
(* The instructions submitted in the model *)

Account(key, is_signer) == [key |-> key, is_signer |-> is_signer]
TokenAccount(owner, mint) == [owner |-> owner, mint |-> mint]

\* Token accounts a release can be directed to
SolverTokenAccounts == {TokenAccount(o, m) : o \in Solvers \cup Outsiders, m \in Mints}
RequesterTokenAccounts ==
    {TokenAccount(o, m) : o \in Requesters \cup Outsiders, m \in Mints}

\* CreateEscrow: every choice of amount, duration, mint and (native)
\* requirements account with sound accounts, and each defect of the accounts
\* (no signature, a foreign PDA, a mint without funds, the zero solver) on its own
CreateInstructions ==
    Listed(
        {i \in [intent_id : IntentIds, amount : Amounts, expiry_duration : Durations,
                requester : {Account(k, sg) : k \in Requesters, sg \in BOOLEAN},
                token_mint : Mints, reserved_solver : Solvers \cup {DefaultPubkey},
                escrow_account : IntentIds,
                requirements_account : IntentIds \cup {NoAccount}] :
            /\ i.requirements_account \in {NoAccount, i.intent_id}
            /\ LET defects == (IF i.requester.is_signer THEN 0 ELSE 1)
                              + (IF i.escrow_account = i.intent_id THEN 0 ELSE 1)
                              + (IF i.token_mint \in FundedMints THEN 0 ELSE 1)
                              + (IF i.reserved_solver # DefaultPubkey THEN 0 ELSE 1)
                   plain == /\ i.amount = MaxAmount
                            /\ i.expiry_duration = None
                            /\ i.requirements_account = i.intent_id
               IN  \/ defects = 0 /\ (i.intent_id \in Varied \/ plain)
                   \/ defects = 1 /\ i.intent_id \in Varied /\ plain})

\* Claim of the native program: the intent's own accounts with every token
\* account, and every mix of accounts with the solver's token account
NativeClaimInstructions ==
    Listed(
        {i \in [intent_id : IntentIds, escrow_account : IntentIds,
                requirements_account : IntentIds, dest : SolverTokenAccounts] :
            LET own == i.escrow_account = i.intent_id /\ i.requirements_account = i.intent_id
                rightful == i.dest.owner \in Solvers /\ i.dest.mint \in FundedMints
            IN  \/ own /\ rightful
                \/ i.intent_id \in Varied /\ (own \/ rightful)})

\* Cancel: by the requester or an outsider, signing or not, to a token account
\* of either
CancelInstructions ==
    Listed(
        {i \in [intent_id : IntentIds, escrow_account : IntentIds,
                requester : {Account(k, sg) : k \in Requesters \cup Outsiders,
                                              sg \in BOOLEAN},
                dest : RequesterTokenAccounts] :
            LET own == i.escrow_account = i.intent_id
                rightful == /\ i.dest.owner = i.requester.key
                            /\ i.dest.mint \in FundedMints
                sound == i.requester.key \in Requesters /\ i.requester.is_signer
            IN  \/ own /\ rightful /\ sound
                \/ /\ i.intent_id \in Varied
                   /\ \/ own /\ rightful
                      \/ own /\ sound
                      \/ rightful /\ sound})

\* The accounts handed in as gmp_caller: the relay the endpoint trusts, signing
\* or not, and an outsider signing
GmpCallers ==
    {Account(k, TRUE) : k \in TrustedRelays \cup Outsiders}
    \cup {Account(k, FALSE) : k \in TrustedRelays}

\* The intent a well-formed payload is about (0 for the others)
PayloadIntent(p) ==
    IF Len(p) >= 33 THEN FromBeBytes(Slice(p, 1, 33)) ELSE 0

ReceiveRequirementsInstructions ==
    Listed(
        {i \in [payload : Payloads, requirements_account : IntentIds,
                gmp_caller : GmpCallers] :
            LET own == i.requirements_account = PayloadIntent(i.payload)
                sound == i.gmp_caller.key \in TrustedRelays /\ i.gmp_caller.is_signer
            IN  \/ own /\ sound
                \/ PayloadIntent(i.payload) \in Varied /\ (own \/ sound)
                \/ PayloadIntent(i.payload) = 0 /\ sound /\ i.requirements_account \in Varied})

ReceiveFulfillmentProofInstructions ==
    Listed(
        {i \in [payload : Payloads, requirements_account : IntentIds,
                escrow_account : IntentIds, dest : SolverTokenAccounts,
                gmp_caller : GmpCallers] :
            LET id == PayloadIntent(i.payload)
                own == i.requirements_account = id /\ i.escrow_account = id
                rightful == i.dest.owner \in Solvers /\ i.dest.mint \in FundedMints
                sound == i.gmp_caller.key \in TrustedRelays /\ i.gmp_caller.is_signer
            IN  \/ own /\ rightful /\ sound
                \/ /\ id \in Varied
                   /\ \/ own /\ rightful
                      \/ own /\ sound
                      \/ rightful /\ sound
                \/ /\ id = 0 /\ sound /\ rightful
                   /\ i.requirements_account \in Varied
                   /\ i.escrow_account \in Varied})

\* Each intake instruction with what IntentRequirements::decode /
\* FulfillmentProof::decode makes of its payload
RequirementsSubmissions ==
    Listed(
        {s \in ReceiveRequirementsInstructions \X {d[2] : d \in RequirementsDeliveries} :
            <<s[1].payload, s[2]>> \in RequirementsDeliveries})

ProofSubmissions ==
    Listed(
        {s \in ReceiveFulfillmentProofInstructions \X {d[2] : d \in ProofDeliveries} :
            <<s[1].payload, s[2]>> \in ProofDeliveries})

\* Claim of the Anchor program, with the instruction at index 0 of its
\* transaction: the signature argument is the one in that instruction's data or
\* another one
AnchorClaimInstructions ==
    Listed(
        {i \in [intent_id : IntentIds, signature : Signatures, escrow_account : IntentIds,
                dest : SolverTokenAccounts, ed : EdInstructions] :
            LET own == i.escrow_account = i.intent_id
                rightful == i.dest.owner \in Solvers /\ i.dest.mint \in FundedMints
                sound == /\ i.signature = i.ed.signature
                         /\ i.ed = EdLayout("Ed25519Program", 144, 1, i.ed.pubkey,
                                            Sig(i.ed.pubkey, i.intent_id), i.intent_id,
                                            "this", NoOther)
                         /\ i.ed.pubkey \in Approvers
            IN  /\ i.signature \in {i.ed.signature, Sig(3, 2)}
                /\ \/ own /\ rightful /\ sound
                   \/ /\ i.intent_id \in Varied
                      /\ \/ own /\ rightful
                         \/ own /\ i.signature = i.ed.signature
                         \/ rightful /\ i.signature = i.ed.signature})

Init ==
    /\ program \in {"native", "anchor"}
    /\ now = 0
    /\ state = [exists |-> FALSE, approver |-> DefaultPubkey]
    /\ escrows = [i \in IntentIds |-> EmptyEscrow]
    /\ requirements = [i \in IntentIds |-> EmptyRequirements]
    /\ vault = [i \in IntentIds |-> 0]
    /\ payouts = [i \in IntentIds |-> <<>>]
    /\ issued = {}
    /\ last = NoOutcome("Deploy")
    /\ ValidatorIdle
    /\ MonitorIdle
    /\ CodecIdle
    /\ NormalizerIdle
    /\ EvmIdle

\* The validator clock moves on
Tick ==
    /\ \E t \in Instants : t > now /\ now' = t
    /\ last' = NoOutcome("Tick")
    /\ UNCHANGED <<outside_escrow, program, state, escrows, requirements, vault, payouts, issued>>

Next ==
    \/ Tick
    \/ \E a \in Approvers : Initialize(a)
    \/ \E id \in IntentIds : ApproverSigns(id)
    \/ \E i \in CreateInstructions : NativeCreateEscrow(i)
    \/ \E i \in NativeClaimInstructions : NativeClaim(i)
    \/ \E i \in CancelInstructions : NativeCancel(i)
    \/ \E s \in RequirementsSubmissions : NativeLzReceiveRequirements(s[1], s[2])
    \/ \E s \in ProofSubmissions : NativeLzReceiveFulfillmentProof(s[1], s[2])
    \/ \E i \in CreateInstructions : AnchorCreateEscrow(i)
    \/ \E i \in AnchorClaimInstructions : AnchorClaim(i)
    \/ \E i \in CancelInstructions : AnchorCancel(i)

Spec == Init /\ [][Next]_vars

----------------------------------------------------------------------------
(* Properties of the escrow state machine *)

\* An escrow that holds funds and has not been released
Open(escrow) == escrow.exists /\ ~escrow.is_claimed /\ escrow.amount > 0

\* An escrow that has been released, to the solver or back to the requester
Closed(escrow) == escrow.exists /\ escrow.is_claimed

\* The result of an instruction under the program deployed
CreateResult(i) ==
    IF program = "native" THEN NativeCreateResult(i) ELSE AnchorCreateResult(i)

CancelResult(i) ==
    IF program = "native" THEN NativeCancelResult(i) ELSE AnchorCancelResult(i)

\* The instruction names the PDAs of its own intent
OwnEscrow(i) == i.escrow_account = i.intent_id

\* The token account handed in is the reserved solver's, of the escrow's mint
ToReservedSolver(i, escrow) ==
    i.dest.owner = escrow.reserved_solver /\ i.dest.mint = escrow.token_mint

\* The requester recorded at Create signs, and hands in its own token account
ByRequester(i, escrow) ==
    /\ i.requester = Account(escrow.requester, TRUE)
    /\ i.dest.owner = escrow.requester
    /\ i.dest.mint = escrow.token_mint

\* A Claim of the Anchor program that carries, in the Ed25519 instruction's own
\* data, a signature the stored approver has made over the intent id
AnchorAuthorized(i) ==
    /\ state.exists
    /\ i.intent_id \in issued
    /\ i.ed = EdLayout("Ed25519Program", 144, 1, state.approver,
                       Sig(state.approver, i.intent_id), i.intent_id, "this", NoOther)
    /\ i.signature = i.ed.signature

\* C1: a Claim succeeds only with valid authorization for the intent id: under
\* the Anchor program the transaction's Ed25519 verification was of a signature
\* by the stored approver key over exactly that intent id, under the native
\* program the stored requirements are fulfilled.
C1_ClaimOnlyWithAuthorization ==
    last.op = "Claim" =>
        IF program = "anchor"
        THEN last.vpk = state.approver /\ last.vmsg = last.id
        ELSE requirements[last.id].fulfilled

\* C2: every release to a solver (a Claim, a fulfillment proof's auto-release)
\* moves the escrow's entire amount to the escrow's reserved solver and to
\* nobody else, whichever token account the instruction hands in.
C2_ReleaseOnlyToReservedSolver ==
    \A id \in IntentIds : \A k \in DOMAIN payouts[id] :
        payouts[id][k].by \in {"Claim", "LzReceiveFulfillmentProof"} =>
            /\ payouts[id][k].to = escrows[id].reserved_solver
            /\ vault[id] = 0

\* C3 as stated: once the escrow of an intent id exists, every Create for that
\* intent id fails with EscrowAlreadyExists.
C3_DuplicateCreateAlreadyExists ==
    \A i \in CreateInstructions :
        escrows[i.intent_id].exists => CreateResult(i) = "EscrowAlreadyExists"

\* C3, amended: once the escrow of an intent id exists, every Create for that
\* intent id fails and the escrow keeps the requester, mint, expiry, solver and
\* intent id it was created with. The native program reports
\* EscrowAlreadyExists when the instruction is otherwise sound and passes no
\* requirements account, and an earlier check's error otherwise; the Anchor
\* program reports AccountAlreadyInUse for a signed Create on the right PDA.
C3_DuplicateCreateFails ==
    /\ [](\A i \in CreateInstructions :
            escrows[i.intent_id].exists =>
                LET res == CreateResult(i)
                    sound == /\ i.amount > 0
                             /\ i.reserved_solver # DefaultPubkey
                             /\ i.requester.is_signer
                             /\ OwnEscrow(i)
                IN  /\ res # "Ok"
                    /\ program = "native" /\ sound =>
                          /\ res \in {"EscrowAlreadyExists", "EscrowAlreadyCreated",
                                      "AmountMismatch", "TokenMismatch"}
                          /\ i.requirements_account = NoAccount =>
                                res = "EscrowAlreadyExists"
                    /\ program = "anchor" /\ i.requester.is_signer /\ OwnEscrow(i) =>
                          res = "AccountAlreadyInUse")
    /\ [][\A id \in IntentIds :
            escrows[id].exists =>
                /\ escrows'[id].exists
                /\ escrows'[id].requester = escrows[id].requester
                /\ escrows'[id].token_mint = escrows[id].token_mint
                /\ escrows'[id].expiry = escrows[id].expiry
                /\ escrows'[id].reserved_solver = escrows[id].reserved_solver
                /\ escrows'[id].intent_id = escrows[id].intent_id]_vars

\* C3's case: the escrow of an intent has been created and released, and a
\* Create for the same intent id is turned down with EscrowAlreadyExists
C3_Witness ==
    /\ program = "native"
    /\ last.op = "Cancel"
    /\ \E i \in CreateInstructions :
          /\ i.intent_id = last.id
          /\ Closed(escrows[i.intent_id])
          /\ CreateResult(i) = "EscrowAlreadyExists"

\* C4 as stated: once an escrow is Cancelled every Claim for its intent id
\* fails with EscrowAlreadyClaimed, and once it is Claimed every Claim and
\* every Cancel does, for every caller.
C4_TerminalAlreadyClaimed ==
    \A id \in IntentIds :
        Closed(escrows[id]) =>
            /\ program = "native" =>
                  \A i \in NativeClaimInstructions :
                      /\ i.intent_id = id
                      /\ OwnEscrow(i)
                      /\ i.requirements_account = id
                      /\ ToReservedSolver(i, escrows[id])
                      => NativeClaimResult(i) = "EscrowAlreadyClaimed"
            /\ program = "anchor" =>
                  \A i \in AnchorClaimInstructions :
                      /\ i.intent_id = id
                      /\ OwnEscrow(i)
                      /\ AnchorAuthorized(i)
                      /\ ToReservedSolver(i, escrows[id])
                      => AnchorClaimResult(i) = "EscrowAlreadyClaimed"
            /\ payouts[id][1].by # "Cancel" =>
                  \A i \in CancelInstructions :
                      i.intent_id = id /\ OwnEscrow(i) /\ ByRequester(i, escrows[id])
                      => CancelResult(i) = "EscrowAlreadyClaimed"

\* C4, amended: a released escrow is terminal. Nothing changes it, its vault
\* or its payouts again, and every Claim and every Cancel on it fails. The
\* error is EscrowAlreadyClaimed when the instruction gets as far as the state
\* checks: a native Cancel for the escrow's intent id; a native Claim whose
\* requirements are stored and fulfilled; an Anchor Claim or Cancel whose
\* accounts pass validation.
C4_Terminal ==
    /\ [](\A id \in IntentIds :
            Closed(escrows[id]) =>
                /\ program = "native" =>
                      /\ \A i \in NativeClaimInstructions :
                            i.escrow_account = id =>
                                /\ NativeClaimResult(i) # "Ok"
                                /\ /\ i.intent_id = id
                                   /\ i.requirements_account = id
                                   /\ requirements[id].exists
                                   /\ requirements[id].fulfilled
                                   => NativeClaimResult(i) = "EscrowAlreadyClaimed"
                      /\ \A i \in CancelInstructions :
                            i.escrow_account = id =>
                                /\ NativeCancelResult(i) # "Ok"
                                /\ i.intent_id = id =>
                                      NativeCancelResult(i) = "EscrowAlreadyClaimed"
                /\ program = "anchor" =>
                      /\ \A i \in AnchorClaimInstructions :
                            i.escrow_account = id =>
                                /\ AnchorClaimResult(i) # "Ok"
                                /\ /\ i.intent_id = id
                                   /\ PrecompileAccepts(i.ed)
                                   /\ state.exists
                                   /\ AnchorSolverAccountAccepted(escrows[id], i.dest)
                                   => AnchorClaimResult(i) = "EscrowAlreadyClaimed"
                      /\ \A i \in CancelInstructions :
                            i.escrow_account = id =>
                                /\ AnchorCancelResult(i) # "Ok"
                                /\ i.intent_id = id /\ ByRequester(i, escrows[id])
                                   => AnchorCancelResult(i) = "EscrowAlreadyClaimed")
    /\ [][\A id \in IntentIds :
            Closed(escrows[id]) =>
                /\ escrows'[id] = escrows[id]
                /\ vault'[id] = vault[id]
                /\ payouts'[id] = payouts[id]]_vars

\* C4's case: the escrow was released by a fulfillment proof, and a Claim for
\* it is turned down with EscrowAlreadyClaimed
C4_Witness ==
    /\ program = "native"
    /\ last.op = "LzReceiveFulfillmentProof"
    /\ Closed(escrows[last.id])
    /\ \E i \in NativeClaimInstructions :
          /\ i.intent_id = last.id
          /\ NativeClaimResult(i) = "EscrowAlreadyClaimed"

\* C5: Claim's expiry guard is inclusive. Under the Anchor program an
\* authorized Claim on an open escrow, on its own PDA and to the reserved
\* solver's token account, succeeds at every time up to and including
\* expiry and fails with EscrowExpired at every later time. (Under the native
\* program no Claim passes the checks that come before the expiry guard.)
C5_ClaimExpiryInclusive ==
    \A i \in AnchorClaimInstructions :
        LET escrow == escrows[i.intent_id]
        IN  /\ program = "anchor"
            /\ Open(escrow)
            /\ OwnEscrow(i)
            /\ AnchorAuthorized(i)
            /\ ToReservedSolver(i, escrow)
            => AnchorClaimResult(i) =
                  IF now <= escrow.expiry THEN "Ok" ELSE "EscrowExpired"

\* C5's case: a Claim has succeeded at the very second the escrow expires
C5_Witness ==
    /\ program = "anchor"
    /\ last.op = "Claim"
    /\ now = escrows[last.id].expiry
    /\ last.vpk = state.approver

\* C6: Cancel is valid only strictly after expiry. A Cancel of an open escrow
\* by its requester at a time up to and including expiry fails with
\* EscrowNotExpiredYet; no Cancel of whatever caller succeeds by then; and a
\* vault pays out to a Cancel only at a time after its escrow's expiry.
C6_CancelOnlyAfterExpiry ==
    /\ [](\A i \in CancelInstructions :
            LET escrow == escrows[i.escrow_account]
            IN  escrow.exists /\ now <= escrow.expiry =>
                    /\ CancelResult(i) # "Ok"
                    /\ Open(escrow) /\ OwnEscrow(i) /\ ByRequester(i, escrow) =>
                          CancelResult(i) = "EscrowNotExpiredYet")
    /\ [][\A id \in IntentIds :
            /\ Len(payouts'[id]) > Len(payouts[id])
            /\ payouts'[id][Len(payouts'[id])].by = "Cancel"
            => now > escrows[id].expiry]_vars

\* C6's case: at the very second an open escrow expires, its requester's
\* Cancel is turned down with EscrowNotExpiredYet
C6_Witness ==
    \E i \in CancelInstructions :
        /\ Open(escrows[i.escrow_account])
        /\ OwnEscrow(i)
        /\ ByRequester(i, escrows[i.escrow_account])
        /\ now = escrows[i.escrow_account].expiry
        /\ CancelResult(i) = "EscrowNotExpiredYet"

\* C7: a Cancel of an open escrow that any caller other than the requester
\* recorded at Create signs and submits fails with UnauthorizedRequester, at
\* every time.
C7_OnlyRequesterCancels ==
    \A i \in CancelInstructions :
        LET escrow == escrows[i.escrow_account]
        IN  /\ Open(escrow)
            /\ OwnEscrow(i)
            /\ i.requester.is_signer
            /\ i.requester.key # escrow.requester
            => CancelResult(i) = "UnauthorizedRequester"

\* C8: under the native program, once the requirements of an intent id are
\* marked fulfilled, a Claim for that intent id at a time up to its escrow's
\* expiry, on the intent's own accounts and to the reserved solver's token
\* account, succeeds.
C8_ClaimAfterProofSucceeds ==
    \A i \in NativeClaimInstructions :
        LET escrow == escrows[i.intent_id]
        IN  /\ program = "native"
            /\ requirements[i.intent_id].exists
            /\ requirements[i.intent_id].fulfilled
            /\ escrow.exists
            /\ now <= escrow.expiry
            /\ OwnEscrow(i)
            /\ i.requirements_account = i.intent_id
            /\ ToReservedSolver(i, escrow)
            => NativeClaimResult(i) = "Ok"

\* C9: LzReceiveRequirements and LzReceiveFulfillmentProof take effect only
\* when the trusted relay invokes them.
C9_IntakeOnlyByTrustedRelay ==
    last.op \in {"LzReceiveRequirements", "LzReceiveFulfillmentProof"} =>
        last.who \in TrustedRelays

\* The well-formed proofs a signing caller submits
SignedProofSubmissions ==
    Listed(
        {s \in ProofSubmissions : s[2].ok /\ s[1].gmp_caller.is_signer})

\* C10: a fulfillment proof is accepted at most once per intent id and only
\* against matching state. A well-formed proof from a signing caller fails
\* when no requirements are stored for its intent id, fails with
\* AlreadyFulfilled on the requirements PDA of an intent already fulfilled,
\* and fails with EscrowDoesNotExist, if nothing earlier, on an escrow of
\* another intent id; and a vault pays out to a proof only once, as its first
\* and only release.
C10_ProofOnceAgainstMatchingState ==
    /\ \A s \in SignedProofSubmissions :
          LET i == s[1]
              m == s[2]
              req == requirements[m.intent_id]
              escrow == escrows[i.escrow_account]
          IN  /\ ~req.exists =>
                    NativeReceiveFulfillmentProofResult(i, m)
                        \in {"InvalidPDA", "RequirementsNotFound"}
              /\ req.fulfilled =>
                    NativeReceiveFulfillmentProofResult(i, m) =
                        IF i.requirements_account = m.intent_id
                        THEN "AlreadyFulfilled" ELSE "InvalidPDA"
              /\ escrow.exists /\ escrow.intent_id # m.intent_id =>
                    /\ NativeReceiveFulfillmentProofResult(i, m) # "Ok"
                    /\ /\ i.requirements_account = m.intent_id
                       /\ req.exists
                       /\ ~req.fulfilled
                       => NativeReceiveFulfillmentProofResult(i, m) = "EscrowDoesNotExist"
    /\ \A id \in IntentIds :
          \A k \in DOMAIN payouts[id] :
              payouts[id][k].by = "LzReceiveFulfillmentProof" => k = 1

\* C10's case: a proof has released the escrow of one intent, the other
\* intent's requirements and escrow exist, and the same proof delivered again
\* is turned down with AlreadyFulfilled
C10_Witness ==
    /\ program = "native"
    /\ last.op = "LzReceiveFulfillmentProof"
    /\ requirements[last.id].fulfilled
    /\ \E id \in IntentIds : id # last.id /\ Open(escrows[id]) /\ requirements[id].exists
    /\ \E s \in SignedProofSubmissions :
          /\ s[2].intent_id = last.id
          /\ NativeReceiveFulfillmentProofResult(s[1], s[2]) = "AlreadyFulfilled"

\* C11: fulfillment intake and release are one step. In every reachable state,
\* requirements marked fulfilled for an intent id mean that the escrow of that
\* intent id is claimed with amount 0, and that its vault has paid its whole
\* deposit out in a transfer the fulfillment proof made.
C11_FulfilledImpliesReleased ==
    \A id \in IntentIds :
        requirements[id].fulfilled =>
            /\ escrows[id].exists
            /\ escrows[id].is_claimed
            /\ escrows[id].amount = 0
            /\ vault[id] = 0
            /\ \E k \in DOMAIN payouts[id] :
                  /\ payouts[id][k].by = "LzReceiveFulfillmentProof"
                  /\ payouts[id][k].amount > 0

\* C11's case: a fulfillment proof has just been accepted for an intent whose
\* escrow held a deposit
C11_Witness ==
    /\ program = "native"
    /\ last.op = "LzReceiveFulfillmentProof"
    /\ requirements[last.id].fulfilled
    /\ Len(payouts[last.id]) = 1
    /\ payouts[last.id][1].amount > 0

\* C12 as stated: once requirements are stored for an intent id, every later
\* LzReceiveRequirements whose message is for that intent id, on that intent's
\* requirements PDA, fails with RequirementsAlreadyExist.
C12_LaterRequirementsAlreadyExist ==
    \A s \in RequirementsSubmissions :
        /\ program = "native"
        /\ s[2].ok
        /\ s[1].requirements_account = s[2].intent_id
        /\ requirements[s[2].intent_id].exists
        => NativeReceiveRequirementsResult(s[1], s[2]) = "RequirementsAlreadyExist"

\* C12, amended: requirements are write-once. Once requirements are stored
\* for an intent id, every later LzReceiveRequirements carrying a message for
\* that intent id fails: with RequirementsAlreadyExist when the caller signs
\* and the intent's own requirements PDA is handed in, with
\* UnauthorizedGmpSource when the caller does not sign, with InvalidPDA on
\* another PDA. The stored requester_addr, amount_required, token_addr,
\* solver_addr and expiry never change afterwards.
C12_RequirementsWriteOnce ==
    /\ [](\A s \in RequirementsSubmissions :
            LET i == s[1]
                m == s[2]
                res == NativeReceiveRequirementsResult(i, m)
            IN  program = "native" /\ m.ok /\ requirements[m.intent_id].exists =>
                    /\ res # "Ok"
                    /\ res = IF ~i.gmp_caller.is_signer THEN "UnauthorizedGmpSource"
                             ELSE IF i.requirements_account # m.intent_id
                             THEN "InvalidPDA"
                             ELSE "RequirementsAlreadyExist")
    /\ [][\A id \in IntentIds :
            requirements[id].exists =>
                /\ requirements'[id].exists
                /\ requirements'[id].intent_id = requirements[id].intent_id
                /\ requirements'[id].requester_addr = requirements[id].requester_addr
                /\ requirements'[id].amount_required = requirements[id].amount_required
                /\ requirements'[id].token_addr = requirements[id].token_addr
                /\ requirements'[id].solver_addr = requirements[id].solver_addr
                /\ requirements'[id].expiry = requirements[id].expiry]_vars

\* C12's case: requirements are stored for an intent, and a signed delivery
\* of requirements with another amount for the same intent is turned down with
\* RequirementsAlreadyExist
C12_Witness ==
    /\ program = "native"
    /\ \E s \in RequirementsSubmissions :
          /\ s[2].ok
          /\ requirements[s[2].intent_id].exists
          /\ s[2].amount_required # requirements[s[2].intent_id].amount_required
          /\ NativeReceiveRequirementsResult(s[1], s[2]) = "RequirementsAlreadyExist"

\* C13: whenever requirements are stored for an intent id (and no escrow has
\* been created for it yet), a Create for that intent id with an amount below
\* requirements.amount_required fails with AmountMismatch, and one with a
\* sufficient amount of another token than requirements.token_addr fails with
\* TokenMismatch.
C13_CreateCheckedAgainstRequirements ==
    \A i \in CreateInstructions :
        LET req == requirements[i.intent_id]
            res == NativeCreateResult(i)
        IN  /\ program = "native"
            /\ req.exists
            /\ ~req.escrow_created
            /\ ~escrows[i.intent_id].exists
            /\ i.amount > 0
            /\ i.reserved_solver # DefaultPubkey
            /\ i.requester.is_signer
            /\ OwnEscrow(i)
            => /\ i.amount < req.amount_required => res = "AmountMismatch"
               /\ i.amount >= req.amount_required /\ i.token_mint # req.token_addr
                     => res = "TokenMismatch"

\* C14: whenever requirements are stored for an intent id, a successful Create
\* for that intent id leaves requirements.escrow_created = true, and every
\* Create for an intent id whose requirements.escrow_created is true, with a
\* positive amount, a solver and the requester's signature, fails with
\* EscrowAlreadyCreated.
C14_CreateMarksRequirements ==
    /\ /\ program = "native"
       /\ last.op = "CreateEscrow"
       /\ requirements[last.id].exists
       => requirements[last.id].escrow_created
    /\ \A i \in CreateInstructions :
          /\ program = "native"
          /\ requirements[i.intent_id].escrow_created
          /\ i.amount > 0
          /\ i.reserved_solver # DefaultPubkey
          /\ i.requester.is_signer
          => NativeCreateResult(i) = "EscrowAlreadyCreated"

\* The guard an error stands for, across the two runtimes: the errors Anchor's
\* account validation raises are read as the native program's check of the
\* same thing (signer, PDA seeds, `init` on an account that has data, an
\* account without data)
GuardOf(res) ==
    CASE res = "AccountNotSigner" -> "MissingRequiredSignature"
      [] res = "ConstraintSeeds" -> "InvalidPDA"
      [] res = "AccountAlreadyInUse" -> "EscrowAlreadyExists"
      [] res \in {"AccountNotInitialized", "BorshIoError"} -> "NoEscrowAccount"
      [] OTHER -> res

\* Claim's state guards: the error of the first one that fails, "Passed" for
\* every other result
ClaimStateGuard(res) ==
    IF res \in {"EscrowDoesNotExist", "EscrowAlreadyClaimed", "NoDeposit",
                "EscrowExpired"}
    THEN res ELSE "Passed"

\* C15: the guard set is the same on both runtimes. In every reachable escrow
\* state, at every time, each Create (without a requirements account, which
\* only the native program takes) and each Cancel gets the same outcome from
\* the native program and from the Anchor program, with the same error for the
\* first failing guard; and a Claim that passes the native program's
\* requirements checks and the Anchor program's account validation gets the
\* same state-guard outcome from both.
C15_SameGuardsOnBothRuntimes ==
    /\ \A i \in CreateInstructions :
          i.requirements_account = NoAccount =>
              GuardOf(NativeCreateResult(i)) = GuardOf(AnchorCreateResult(i))
    /\ \A i \in CancelInstructions :
          GuardOf(NativeCancelResult(i)) = GuardOf(AnchorCancelResult(i))
    /\ \A n \in NativeClaimInstructions : \A a \in AnchorClaimInstructions :
          /\ a.intent_id = n.intent_id
          /\ a.escrow_account = n.escrow_account
          /\ a.dest = n.dest
          /\ n.requirements_account = n.intent_id
          /\ requirements[n.intent_id].exists
          /\ requirements[n.intent_id].fulfilled
          /\ PrecompileAccepts(a.ed)
          /\ escrows[a.escrow_account].exists
          /\ state.exists
          /\ OwnEscrow(a)
          /\ AnchorSolverAccountAccepted(escrows[a.escrow_account], a.dest)
          => ClaimStateGuard(NativeClaimResult(n)) = ClaimStateGuard(AnchorClaimResult(a))

----------------------------------------------------------------------------
(* The inflow validator: trusted-verifier/src/validator/inflow_generic.rs *)

\* A Rust string is written as the sequence of its characters
LowerChar(c) ==
    CASE c = "A" -> "a"
      [] c = "B" -> "b"
      [] OTHER -> c

\* str::to_lowercase
ToLowercase(s) == [k \in DOMAIN s |-> LowerChar(s[k])]

\* s.strip_prefix("0x").unwrap_or(s)
StripPrefix0x(s) ==
    IF Len(s) >= 2 /\ s[1] = "0" /\ s[2] = "x" THEN SubSeq(s, 3, Len(s)) ELSE s

RECURSIVE TrimStartZeros(_)
\* s.trim_start_matches('0')
TrimStartZeros(s) ==
    IF s # <<>> /\ s[1] = "0" THEN TrimStartZeros(Tail(s)) ELSE s

\* The text {"inner":"<inner>"}
InnerJson(inner) ==
    <<"{", "\"", "i", "n", "n", "e", "r", "\"", ":", "\"">> \o inner \o <<"\"", "}">>

\* serde_json::from_str(metadata), then .get("inner").and_then(|v| v.as_str()):
\* the string under the key "inner" of a JSON object, if the text is one
ParsedInner(metadata) ==
    IF /\ Len(metadata) >= 12
       /\ SubSeq(metadata, 1, 10) = SubSeq(InnerJson(<<>>), 1, 10)
       /\ SubSeq(metadata, Len(metadata) - 1, Len(metadata)) = <<"\"", "}">>
       /\ \A k \in 11..(Len(metadata) - 2) : metadata[k] # "\""
    THEN Some(SubSeq(metadata, 11, Len(metadata) - 2))
    ELSE None

\* normalize_metadata_for_comparison, were it to keep the leading zeros
NormalizeMetadataKeepingZeros(metadata) ==
    LET inner == ParsedInner(metadata)
    IN  IF inner.some
        THEN LET addr_no_prefix == StripPrefix0x(inner.value)
                 addr_trimmed == IF addr_no_prefix = <<>> THEN <<"0">> ELSE addr_no_prefix
             IN  <<"0", "x">> \o ToLowercase(addr_trimmed)
        ELSE ToLowercase(metadata)

\* normalize_metadata_for_comparison
NormalizeMetadataForComparison(metadata) ==
    LET inner == ParsedInner(metadata)
    IN  IF inner.some
        THEN LET addr_no_prefix == StripPrefix0x(inner.value)
                 trimmed == TrimStartZeros(addr_no_prefix)
                 addr_trimmed == IF trimmed = <<>> THEN <<"0">> ELSE trimmed
             IN  <<"0", "x">> \o ToLowercase(addr_trimmed)
        ELSE ToLowercase(metadata)

\* Comparison of two solver addresses of the connected chain after
\* normalization: without the 0x prefix and leading zeros, in lowercase
NormalizeAddress(addr) == ToLowercase(TrimStartZeros(StripPrefix0x(addr)))

\* ValidationResult { valid, message, .. } returned as Ok, and an Err. queries
\* counts the registry queries the call made; message names, in the words of
\* the message text, the check that decided
OkResult(valid, message, queries) ==
    [result |-> "Ok", valid |-> valid, message |-> message, queries |-> queries]
ErrResult(message, queries) ==
    [result |-> "Err", valid |-> FALSE, message |-> message, queries |-> queries]

\* An entry of the hub's SolverRegistry: the solver's addresses on connected
\* chains of each kind, and the registry without an entry for the solver
RegistryEntry(evm, mvm) == [registered |-> TRUE, evm_addr |-> evm, mvm_addr |-> mvm]
NoRegistryEntry == [registered |-> FALSE, evm_addr |-> None, mvm_addr |-> None]

\* The registry answers
RegistryAnswers(reg) == reg.status = "ok"

\* A failed registry query is handed on as an error by integrated-gmp's
\* client; the trusted-verifier's client returns Ok(None) for it
QueryFailureCoerced(c) == c = "trusted-verifier"

\* get_solver_evm_address / get_solver_connected_chain_mvm_address: the registry
\* lookup of the intent's solver for a chain kind. Ok(Some(addr)), Ok(None)
\* when the solver has no entry or no address of that kind, or Err
GetSolverAddress(c, reg, chain_type) ==
    IF ~RegistryAnswers(reg)
    THEN IF QueryFailureCoerced(c)
         THEN [result |-> "Ok", addr |-> None]
         ELSE [result |-> "Err", addr |-> None]
    ELSE IF ~reg.entry.registered THEN [result |-> "Ok", addr |-> None]
    ELSE [result |-> "Ok",
          addr |-> IF chain_type = "Evm" THEN reg.entry.evm_addr
                   ELSE reg.entry.mvm_addr]

\* validate_evm_escrow_solver / validate_mvm_escrow_solver
ValidateEscrowSolver(c, intent, escrow_solver, reg, chain_type) ==
    IF ~intent.reserved_solver_addr.some
    THEN OkResult(FALSE, "does not have a reserved solver", 0)
    ELSE LET looked_up == GetSolverAddress(c, reg, chain_type)
         IN  IF looked_up.result = "Err"
             THEN ErrResult("Failed to query solver registry", 1)
             ELSE IF ~looked_up.addr.some
             THEN OkResult(FALSE, "not registered", 1)
             ELSE IF NormalizeAddress(looked_up.addr.value)
                        # NormalizeAddress(escrow_solver)
             THEN OkResult(FALSE, "does not match", 1)
             ELSE OkResult(TRUE, "successful", 1)

\* validate_intent_fulfillment's checks that read only the two events
OfferedAmountMatches(intent, escrow) ==
    ~(escrow.offered_amount # intent.offered_amount)

OfferedMetadataMatches(intent, escrow) ==
    ~(NormalizeMetadataForComparison(escrow.offered_metadata)
        # NormalizeMetadataForComparison(intent.offered_metadata))

ChainIdMatches(intent, escrow) ==
    intent.connected_chain_id.some =>
        ~(escrow.chain_id # intent.connected_chain_id.value)

\* The desired-amount check that lets every escrow pass
DesiredAmountUnchecked(escrow) == TRUE

DesiredAmountIsZero(escrow) == ~(escrow.desired_amount # 0)

\* validate_intent_fulfillment with the solver reservation looked into first
\* and the five other checks after it
ValidateIntentFulfillmentSolverFirst(c, intent, escrow, reg) ==
    LET solver ==
            IF escrow.reserved_solver_addr.some /\ intent.reserved_solver_addr.some
            THEN ValidateEscrowSolver(c, intent, escrow.reserved_solver_addr.value,
                                      reg, IF escrow.chain_type = "Evm"
                                           THEN "Evm" ELSE "Mvm")
            ELSE IF escrow.reserved_solver_addr.some
                    \/ intent.reserved_solver_addr.some
            THEN OkResult(FALSE, "reservation mismatch", 0)
            ELSE OkResult(TRUE, "", 0)
    IN  IF solver.result = "Err" \/ ~solver.valid THEN solver
        ELSE IF ~intent.connected_chain_id.some
        THEN OkResult(FALSE, "must specify connected_chain_id", solver.queries)
        ELSE IF ~OfferedAmountMatches(intent, escrow)
        THEN OkResult(FALSE, "offered amount does not match", solver.queries)
        ELSE IF ~OfferedMetadataMatches(intent, escrow)
        THEN OkResult(FALSE, "offered metadata does not match", solver.queries)
        ELSE IF ~ChainIdMatches(intent, escrow)
        THEN OkResult(FALSE, "chain_id does not match", solver.queries)
        ELSE IF ~DesiredAmountIsZero(escrow)
        THEN OkResult(FALSE, "desired amount must be 0", solver.queries)
        ELSE OkResult(TRUE, "validation successful", solver.queries)

\* validate_intent_fulfillment
ValidateIntentFulfillmentResult(c, intent, escrow, reg) ==
    IF ~intent.connected_chain_id.some
    THEN OkResult(FALSE, "must specify connected_chain_id", 0)
    ELSE IF ~OfferedAmountMatches(intent, escrow)
    THEN OkResult(FALSE, "offered amount does not match", 0)
    ELSE IF ~OfferedMetadataMatches(intent, escrow)
    THEN OkResult(FALSE, "offered metadata does not match", 0)
    ELSE IF ~ChainIdMatches(intent, escrow)
    THEN OkResult(FALSE, "chain_id does not match", 0)
    ELSE IF ~DesiredAmountIsZero(escrow)
    THEN OkResult(FALSE, "desired amount must be 0", 0)
    ELSE IF escrow.reserved_solver_addr.some /\ intent.reserved_solver_addr.some
    THEN LET validation_result ==
                 ValidateEscrowSolver(c, intent, escrow.reserved_solver_addr.value,
                                      reg, IF escrow.chain_type = "Evm"
                                           THEN "Evm" ELSE "Mvm")
         IN  IF validation_result.result = "Err" THEN validation_result
             ELSE IF ~validation_result.valid THEN validation_result
             ELSE OkResult(TRUE, "validation successful", validation_result.queries)
    ELSE IF escrow.reserved_solver_addr.some \/ intent.reserved_solver_addr.some
    THEN OkResult(FALSE, "reservation mismatch", 0)
    ELSE OkResult(TRUE, "validation successful", 0)

\* EventMonitor::validate_intent_fulfillment(escrow) of integrated-gmp: the
\* escrow against the cached intent of its intent id. Err when the deposit is
\* less than the intent requires, Ok(()) otherwise
MonitorValidateIntentFulfillmentResult(intent, escrow) ==
    IF escrow.offered_amount < intent.offered_amount
    THEN ErrResult("Deposit amount is less than required", 0)
    ELSE OkResult(TRUE, "", 0)

----------------------------------------------------------------------------
(* The events and registry answers of the model *)

ConnectedChainIds == {2, 3}

\* The solver's address on the hub chain
HubSolverAddr == <<"0", "x", "5">>

\* Solver addresses of a connected chain: one address written three ways, and
\* another address
SolverAddrUpper == <<"0", "x", "A", "B">>
SolverAddrBare == <<"a", "b">>
SolverAddrPadded == <<"0", "x", "0", "a", "b">>
OtherSolverAddr == <<"0", "x", "B", "A">>

\* offered_metadata texts: one token written three ways, another token, and
\* two texts without an "inner" string
TokenMetadata == InnerJson(<<"0", "x", "0", "A">>)
TokenMetadataShort == InnerJson(<<"a">>)
PlainTokenMetadata == <<"0", "x", "A">>
OtherTokenMetadata == InnerJson(<<"0", "x", "B">>)
EmptyMetadata == <<"{", "}">>

IntentEvents ==
    [connected_chain_id : {None} \cup {Some(c) : c \in {2}},
     offered_amount : {MaxAmount},
     offered_metadata : {TokenMetadata, EmptyMetadata},
     reserved_solver_addr : {None, Some(HubSolverAddr)},
     revocable : BOOLEAN]

EscrowEvents ==
    [offered_amount : Amounts,
     offered_metadata : {TokenMetadata, TokenMetadataShort, PlainTokenMetadata,
                         OtherTokenMetadata, EmptyMetadata},
     chain_id : ConnectedChainIds,
     desired_amount : {0, 1},
     reserved_solver_addr : {None, Some(SolverAddrUpper), Some(OtherSolverAddr)},
     chain_type : {"Evm", "Mvm"},
     revocable : BOOLEAN]

RegistryFailures == {"http_500", "network_error", "malformed_response"}

Registries ==
    {[status |-> "ok", entry |-> e] :
        e \in {NoRegistryEntry,
               RegistryEntry(None, None),
               RegistryEntry(Some(SolverAddrBare), None),
               RegistryEntry(Some(SolverAddrPadded), Some(SolverAddrBare))}}
    \cup {[status |-> f, entry |-> NoRegistryEntry] : f \in RegistryFailures}

Crates == {"trusted-verifier", "integrated-gmp"}

\* No escrow program runs
EscrowIdle ==
    /\ program = "none"
    /\ now = 0
    /\ state = [exists |-> FALSE, approver |-> DefaultPubkey]
    /\ escrows = [i \in IntentIds |-> EmptyEscrow]
    /\ requirements = [i \in IntentIds |-> EmptyRequirements]
    /\ vault = [i \in IntentIds |-> 0]
    /\ payouts = [i \in IntentIds |-> <<>>]
    /\ issued = {}
    /\ last = NoOutcome("Deploy")

\* Nothing has been validated yet
NoValidation == [op |-> "none", out |-> OkResult(FALSE, "", 0)]

InitValidator ==
    /\ EscrowIdle
    /\ MonitorIdle
    /\ CodecIdle
    /\ NormalizerIdle
    /\ EvmIdle
    /\ crate \in Crates
    /\ intent_event \in IntentEvents
    /\ escrow_event \in EscrowEvents
    /\ registry \in Registries
    /\ validation = NoValidation
    /\ fulfillment_tx = <<>>
    /\ fulfillment_event = <<>>

\* validate_intent_fulfillment(validator, intent_event, escrow_event)
ValidateIntentFulfillment ==
    /\ validation' =
          [op |-> "validate_intent_fulfillment",
           out |-> ValidateIntentFulfillmentResult(crate, intent_event,
                                                   escrow_event, registry)]
    /\ UNCHANGED <<outside_validator, validator_inputs>>

\* validate_evm_escrow_solver / validate_mvm_escrow_solver called on their own
\* with the escrow's reserved solver
ValidateSolver ==
    /\ escrow_event.reserved_solver_addr.some
    /\ validation' =
          [op |-> "validate_escrow_solver",
           out |-> ValidateEscrowSolver(crate, intent_event,
                                        escrow_event.reserved_solver_addr.value,
                                        registry, escrow_event.chain_type)]
    /\ UNCHANGED <<outside_validator, validator_inputs>>

\* EventMonitor::validate_intent_fulfillment(escrow_event)
MonitorValidateIntentFulfillment ==
    /\ crate = "integrated-gmp"
    /\ validation' =
          [op |-> "monitor.validate_intent_fulfillment",
           out |-> MonitorValidateIntentFulfillmentResult(intent_event, escrow_event)]
    /\ UNCHANGED <<outside_validator, validator_inputs>>

NextValidator ==
    \/ ValidateIntentFulfillment
    \/ ValidateSolver
    \/ MonitorValidateIntentFulfillment

SpecValidator == InitValidator /\ [][NextValidator]_vars

----------------------------------------------------------------------------
(* Properties of the validator *)

\* The validation made last queried the registry
Queried == validation.op # "none" /\ validation.out.queries > 0

\* C16: a registry query failure always propagates as an error. Whenever a
\* validation queried the solver registry and the query itself failed (network
\* error, HTTP 500, malformed response), the validation returned an error:
\* never a ValidationResult, of either polarity.
C16_RegistryFailurePropagates ==
    /\ validation.op \in {"validate_intent_fulfillment", "validate_escrow_solver"}
    /\ Queried
    /\ ~RegistryAnswers(registry)
    => validation.out.result = "Err"

\* C17: validation never raises for a business-rule failure. Unless the
\* validation queried the registry and the query failed, whatever mismatch the
\* pair has (amount, metadata, chain id, desired amount, reservation, solver
\* address, a solver the registry does not know), each validation of an
\* (intent, escrow) pair returns Ok with a ValidationResult, never an error.
C17_BusinessFailureNeverRaises ==
    /\ validation.op # "none"
    /\ ~(Queried /\ ~RegistryAnswers(registry))
    => validation.out.result = "Ok"

\* The connected-chain address the registry holds for the intent's solver, for
\* the chain kind of the escrow
ResolvedSolverAddr(reg, escrow) ==
    IF ~reg.entry.registered THEN None
    ELSE IF escrow.chain_type = "Evm" THEN reg.entry.evm_addr
    ELSE reg.entry.mvm_addr

\* Check 6: neither side names a solver, or both do and the registry-resolved
\* address of the intent's solver is the escrow's reserved solver
SolverReservationsAgree(intent, escrow, reg) ==
    \/ ~intent.reserved_solver_addr.some /\ ~escrow.reserved_solver_addr.some
    \/ /\ intent.reserved_solver_addr.some
       /\ escrow.reserved_solver_addr.some
       /\ ResolvedSolverAddr(reg, escrow).some
       /\ NormalizeAddress(ResolvedSolverAddr(reg, escrow).value)
             = NormalizeAddress(escrow.reserved_solver_addr.value)

\* The six checks of inflow validation, each on its own
SixChecks(intent, escrow, reg) ==
    <<intent.connected_chain_id.some,
      escrow.offered_amount = intent.offered_amount,
      NormalizeMetadataForComparison(escrow.offered_metadata)
          = NormalizeMetadataForComparison(intent.offered_metadata),
      intent.connected_chain_id.some
          /\ escrow.chain_id = intent.connected_chain_id.value,
      escrow.desired_amount = 0,
      SolverReservationsAgree(intent, escrow, reg)>>

\* C18: inflow validation is exact. For every (intent, escrow) pair for which
\* the registry answers, validate_intent_fulfillment returns Ok, and valid is
\* true if and only if all six checks pass.
C18_InflowValidationExact ==
    /\ validation.op = "validate_intent_fulfillment"
    /\ RegistryAnswers(registry)
    => /\ validation.out.result = "Ok"
       /\ validation.out.valid <=>
             \A k \in 1..6 : SixChecks(intent_event, escrow_event, registry)[k]

\* C18's case: a pair was found valid whose metadata and solver addresses are
\* written differently on the two sides and agree only after normalization and
\* the registry lookup
C18_Witness ==
    /\ validation.op = "validate_intent_fulfillment"
    /\ RegistryAnswers(registry)
    /\ validation.out.valid
    /\ escrow_event.offered_metadata # intent_event.offered_metadata
    /\ intent_event.reserved_solver_addr.some
    /\ escrow_event.reserved_solver_addr.some
    /\ ResolvedSolverAddr(registry, escrow_event).value
          # escrow_event.reserved_solver_addr.value

\* What the message of a failed check 1 to 5 says
CheckMessages ==
    <<"must specify connected_chain_id", "offered amount does not match",
      "offered metadata does not match", "chain_id does not match",
      "desired amount must be 0">>

\* The checks among 1 to 5 that the pair fails
FailingChecks(intent, escrow, reg) ==
    {k \in 1..5 : ~SixChecks(intent, escrow, reg)[k]}

\* The lowest number in a non-empty set of check numbers
Lowest(S) == CHOOSE k \in S : \A j \in S : k <= j

\* C19: the six checks are evaluated in the listed order and the first failure
\* short-circuits. When one or more of checks 1 to 5 fail, the result is the
\* negative ValidationResult with the message of the lowest-numbered failing
\* check and the registry has not been queried, whatever the later checks and
\* the registry would have said; the registry is queried only when checks 1 to
\* 5 have all passed, and then at most once.
C19_ChecksInOrder ==
    validation.op = "validate_intent_fulfillment" =>
        LET failing == FailingChecks(intent_event, escrow_event, registry)
        IN  /\ failing # {} =>
                  /\ validation.out.result = "Ok"
                  /\ ~validation.out.valid
                  /\ validation.out.message = CheckMessages[Lowest(failing)]
                  /\ validation.out.queries = 0
            /\ validation.out.queries > 0 => failing = {}
            /\ validation.out.queries <= 1
            /\ failing = {} /\ validation.out.result = "Ok" /\ ~validation.out.valid =>
                  validation.out.message
                      \in {"reservation mismatch", "not registered", "does not match"}

\* C19's case: a pair that fails checks 2 and 5, and whose solver lookup would
\* have failed in the registry, was turned down with the message of check 2
\* and without a registry query
C19_Witness ==
    /\ validation.op = "validate_intent_fulfillment"
    /\ {2, 5} \subseteq FailingChecks(intent_event, escrow_event, registry)
    /\ intent_event.reserved_solver_addr.some
    /\ escrow_event.reserved_solver_addr.some
    /\ ~RegistryAnswers(registry)
    /\ validation.out.message = CheckMessages[2]
    /\ validation.out.queries = 0

\* C20: revocable intents are never escrow-eligible. Whenever the intent or the
\* escrow record carries revocable = TRUE, validate_intent_fulfillment does
\* not return a positive ValidationResult for the pair, so that nothing
\* downstream can authorise a claim on it.
C20_RevocableNeverValidated ==
    /\ validation.op = "validate_intent_fulfillment"
    /\ intent_event.revocable \/ escrow_event.revocable
    => ~(validation.out.result = "Ok" /\ validation.out.valid)

----------------------------------------------------------------------------
(* The event monitor: the readiness tracker of the coordinator              *)
(* (EventMonitor.event_cache, mark_intent_ready and the requirements        *)
(* pollers), the escrow cache fed by the EVM escrow poller of trusted-gmp,  *)
(* and validate_and_approve_fulfillment of trusted-verifier.                *)
(* Specification SpecMonitor.                                               *)

\* normalize_intent_id: the id without its 0x prefix and leading zeros, in
\* lowercase, behind a 0x prefix ("0x00123" and "0x123" give "0x123")
NormalizeIntentId(intent_id) ==
    LET trimmed == TrimStartZeros(StripPrefix0x(intent_id))
    IN  <<"0", "x">> \o ToLowercase(IF trimmed = <<>> THEN <<"0">> ELSE trimmed)

\* Intent ids as the tests write them
IntentId123 == <<"0", "x", "1", "2", "3">>
IntentId00123 == <<"0", "x", "0", "0", "1", "2", "3">>
IntentIdA == <<"0", "x", "A">>
IntentId0a == <<"0", "x", "0", "a">>
IntentId999 == <<"0", "x", "9", "9", "9">>
\* The ids mark_intent_ready is called with outside the pollers
RawIntentIds == {IntentId123, IntentId999}

\* An IntentEvent of the coordinator's cache (the fields the tracker reads or
\* writes, and two it must leave alone)
CachedIntent(intent_id, ready) ==
    [intent_id |-> intent_id,
     desired_amount |-> 200,
     revocable |-> FALSE,
     ready_on_connected_chain |-> ready]

\* mark_intent_ready, were it to flip ready_on_connected_chain of the matching
\* intents instead of setting it
WithIntentReadyToggled(cache, raw_id) ==
    [k \in DOMAIN cache |->
        IF NormalizeIntentId(cache[k].intent_id) = NormalizeIntentId(raw_id)
        THEN [cache[k] EXCEPT !.ready_on_connected_chain = ~@]
        ELSE cache[k]]

\* mark_intent_ready, were it to compare the ids as they are written
WithIntentReadyExactId(cache, raw_id) ==
    [k \in DOMAIN cache |->
        IF cache[k].intent_id = raw_id
        THEN [cache[k] EXCEPT !.ready_on_connected_chain = TRUE]
        ELSE cache[k]]

\* One step of the search of mark_intent_ready: the cache with
\* ready_on_connected_chain set on the intents of that normalized id
WithIntentReady(cache, raw_id) ==
    [k \in DOMAIN cache |->
        IF NormalizeIntentId(cache[k].intent_id) = NormalizeIntentId(raw_id)
        THEN [cache[k] EXCEPT !.ready_on_connected_chain = TRUE]
        ELSE cache[k]]

\* What an EventMonitor call returned
MonitorOk(op, arg) == [op |-> op, arg |-> arg, result |-> "Ok"]
MonitorErr(op, arg) == [op |-> op, arg |-> arg, result |-> "Err"]

\* An event of the outflow validator's account on a connected Move VM chain,
\* or a log line of a connected Solana VM chain
ChainEvent(type, data) == [type |-> type, data |-> data]
RequirementsReceived(intent_id) ==
    ChainEvent("IntentRequirementsReceived",
               [parses |-> TRUE, intent_id |-> intent_id])
MalformedRequirementsReceived ==
    ChainEvent("IntentRequirementsReceived", [parses |-> FALSE, intent_id |-> <<>>])
OtherChainEvent ==
    ChainEvent("EscrowCreated", [parses |-> FALSE, intent_id |-> <<>>])

\* event_type.contains("IntentRequirementsReceived")
IsRequirementsReceived(event) == event.type = "IntentRequirementsReceived"

\* An EscrowCreated log of the IntentInflowEscrow contract
EscrowCreated(escrow_id, intent_id, amount) ==
    [escrow_id |-> escrow_id,
     intent_id |-> intent_id,
     token_addr |-> <<"0", "x", "0", "A">>,
     amount |-> amount,
     requester_addr |-> "0xrequester",
     reserved_solver |-> SolverAddrUpper,
     expiry |-> DEFAULT_EXPIRY_DURATION]

\* The EscrowEvent that poll_evm_escrow_events makes of an EscrowCreated log
EscrowEventOfEvm(event, chain_id, timestamp) ==
    [escrow_id |-> event.escrow_id,
     intent_id |-> event.intent_id,
     offered_metadata |-> InnerJson(event.token_addr),
     offered_amount |-> event.amount,
     desired_metadata |-> EmptyMetadata,
     desired_amount |-> 0,
     revocable |-> FALSE,
     requester_addr |-> event.requester_addr,
     reserved_solver_addr |-> Some(event.reserved_solver),
     chain_id |-> chain_id,
     chain_type |-> "Evm",
     expiry_time |-> event.expiry,
     timestamp |-> timestamp]

\* connected_chain_evm.chain_id of the configuration
ConnectedChainEvmId == CHOOSE c \in ConnectedChainIds : \A d \in ConnectedChainIds : c >= d

\* The escrow cache after an EscrowEvent was pushed whatever it holds already
PushEscrow(cache, escrow) == Append(cache, escrow)

\* The escrow cache after an observed EscrowEvent was added: an escrow whose
\* escrow_id is cached already is not added again
AppendEscrow(cache, escrow) ==
    IF \E k \in DOMAIN cache : cache[k].escrow_id = escrow.escrow_id
    THEN cache
    ELSE Append(cache, escrow)

\* Any cached escrow, whatever its intent (stands in for a lookup that does
\* not compare intent ids)
AnyEscrow(cache, intent_id) ==
    IF cache = <<>> THEN None ELSE Some(cache[1])

\* escrow_cache.iter().find(|e| e.intent_id == fulfillment.intent_id)
MatchingEscrow(cache, intent_id) ==
    IF \E k \in DOMAIN cache : cache[k].intent_id = intent_id
    THEN Some(cache[CHOOSE k \in DOMAIN cache :
                       /\ cache[k].intent_id = intent_id
                       /\ \A j \in DOMAIN cache :
                              cache[j].intent_id = intent_id => k <= j])
    ELSE None

\* The Approval that validate_and_approve_fulfillment signs for an escrow;
\* the signature is written as the intent id it is made over
Approval(intent_id, timestamp) ==
    [intent_id |-> intent_id,
     approval_value |-> 1,
     signature |-> <<"signed", intent_id>>,
     timestamp |-> timestamp]

\* A FulfillmentEvent of the hub chain
FulfillmentEvent(intent_id) ==
    [chain |-> "hub",
     intent_id |-> intent_id,
     solver |-> "0xsolver",
     provided_amount |-> 1000]

\* No Approval, and the Approval kept for an escrow
NoApproval == [some |-> FALSE, value |-> Approval(<<>>, 0)]
SomeApproval(approval) == [some |-> TRUE, value |-> approval]

EscrowIds == {"0xescrow", "0xescrow2"}
RequirementsPollers == {"mvm", "svm"}
Pollers == RequirementsPollers \cup {"evm"}

\* What the connected chains hold
Chains ==
    Listed({
        [mvm |-> <<RequirementsReceived(IntentId123), OtherChainEvent,
                   RequirementsReceived(IntentId00123)>>,
         svm |-> <<RequirementsReceived(IntentId0a),
                   RequirementsReceived(IntentId999)>>,
         evm |-> <<EscrowCreated("0xescrow", IntentId123, 1),
                   EscrowCreated("0xescrow2", IntentIdA, MaxAmount)>>],
        [mvm |-> <<RequirementsReceived(IntentIdA), MalformedRequirementsReceived,
                   RequirementsReceived(IntentId123)>>,
         svm |-> <<RequirementsReceived(IntentId123)>>,
         evm |-> <<EscrowCreated("0xescrow", IntentId123, 1)>>]})

\* The intents in the cache when the pollers start: none of them ready, no two
\* of one normalized id
CachedIntents ==
    Listed({<<>>,
            <<CachedIntent(IntentId00123, FALSE)>>,
            <<CachedIntent(IntentId00123, FALSE), CachedIntent(IntentIdA, FALSE)>>,
            <<CachedIntent(IntentId0a, FALSE), CachedIntent(IntentId123, FALSE)>>})

Fulfillments ==
    Listed({FulfillmentEvent(id) : id \in {IntentId123, IntentId00123}})

IdlePoller == [pending |-> <<>>, count |-> 0]
NoMonitorCall == MonitorOk("none", <<>>)

InitMonitor ==
    /\ EscrowIdle
    /\ ValidatorIdle
    /\ CodecIdle
    /\ NormalizerIdle
    /\ EvmIdle
    /\ event_cache \in CachedIntents
    /\ escrow_cache = <<>>
    /\ approvals = [e \in EscrowIds |-> NoApproval]
    /\ chain \in Chains
    /\ pollers = [p \in Pollers |-> IdlePoller]
    /\ applied = {}
    /\ wall_clock = 0
    /\ monitor_call = NoMonitorCall

\* EventMonitor::mark_intent_ready(raw_id)
MarkIntentReady(raw_id) ==
    /\ event_cache' = WithIntentReady(event_cache, raw_id)
    /\ applied' = applied \cup {<<"requirements", raw_id>>}
    /\ monitor_call' = MonitorOk("mark_intent_ready", raw_id)
    /\ UNCHANGED <<outside_monitor, escrow_cache, approvals, chain, pollers, wall_clock>>

\* poll_mvm_requirements_received (and its Solana VM twin) up to the answer of
\* the chain: the events of the outflow validator's account
PollRequirementsReceived(p) ==
    /\ pollers[p].pending = <<>>
    /\ pollers' = [pollers EXCEPT ![p] = [pending |-> chain[p], count |-> 0]]
    /\ UNCHANGED <<outside_monitor, event_cache, escrow_cache, approvals, chain,
                   applied, wall_clock, monitor_call>>

\* One turn of the loop of poll_mvm_requirements_received over the events it
\* fetched: an event of another type is passed over, one that does not parse
\* ends the poll with an error, any other marks its intent ready
ApplyRequirementsReceived(p) ==
    /\ pollers[p].pending # <<>>
    /\ LET event == Head(pollers[p].pending)
       IN  IF ~IsRequirementsReceived(event)
           THEN /\ pollers' = [pollers EXCEPT ![p].pending = Tail(@)]
                /\ UNCHANGED <<event_cache, applied>>
           ELSE IF ~event.data.parses
           THEN /\ pollers' = [pollers EXCEPT ![p] = IdlePoller]
                /\ UNCHANGED <<event_cache, applied>>
           ELSE /\ event_cache' = WithIntentReady(event_cache, event.data.intent_id)
                /\ applied' = applied \cup {<<"requirements", event.data.intent_id>>}
                /\ pollers' = [pollers EXCEPT ![p] =
                                  [pending |-> Tail(@.pending), count |-> @.count + 1]]
    /\ UNCHANGED <<outside_monitor, escrow_cache, approvals, chain, wall_clock,
                   monitor_call>>

\* poll_evm_escrow_events: the EscrowCreated logs of the look-back window as
\* EscrowEvents stamped with the time of the poll
PollEvmEscrowEvents ==
    /\ pollers["evm"].pending = <<>>
    /\ pollers' = [pollers EXCEPT !["evm"] =
                      [pending |-> [k \in DOMAIN chain.evm |->
                                       EscrowEventOfEvm(chain.evm[k], ConnectedChainEvmId,
                                                        wall_clock)],
                       count |-> 0]]
    /\ UNCHANGED <<outside_monitor, event_cache, escrow_cache, approvals, chain,
                   applied, wall_clock, monitor_call>>

\* The monitor adds one polled EscrowEvent to its escrow cache
CacheEscrowEvent ==
    /\ pollers["evm"].pending # <<>>
    /\ LET escrow == Head(pollers["evm"].pending)
       IN  /\ escrow_cache' = AppendEscrow(escrow_cache, escrow)
           /\ applied' = applied \cup {<<"escrow", escrow.escrow_id>>}
    /\ pollers' = [pollers EXCEPT !["evm"].pending = Tail(@)]
    /\ UNCHANGED <<outside_monitor, event_cache, approvals, chain, wall_clock,
                   monitor_call>>

\* EventMonitor::validate_and_approve_fulfillment(fulfillment)
ValidateAndApproveFulfillment(fulfillment) ==
    LET matching_escrow == MatchingEscrow(escrow_cache, fulfillment.intent_id)
    IN  /\ IF matching_escrow.some
           THEN /\ approvals' =
                      [approvals EXCEPT ![matching_escrow.value.escrow_id] =
                          SomeApproval(Approval(fulfillment.intent_id, wall_clock))]
                /\ monitor_call' =
                      MonitorOk("validate_and_approve_fulfillment", fulfillment.intent_id)
           ELSE /\ monitor_call' =
                      MonitorErr("validate_and_approve_fulfillment", fulfillment.intent_id)
                /\ UNCHANGED approvals
        /\ UNCHANGED <<outside_monitor, event_cache, escrow_cache, chain, pollers,
                       applied, wall_clock>>

\* Time passes between two polls
ClockTick ==
    /\ wall_clock < MaxTicks
    /\ wall_clock' = wall_clock + 1
    /\ UNCHANGED <<outside_monitor, event_cache, escrow_cache, approvals, chain,
                   pollers, applied, monitor_call>>

NextMonitor ==
    \/ \E raw_id \in RawIntentIds : MarkIntentReady(raw_id)
    \/ \E p \in RequirementsPollers : PollRequirementsReceived(p)
    \/ \E p \in RequirementsPollers : ApplyRequirementsReceived(p)
    \/ PollEvmEscrowEvents
    \/ CacheEscrowEvent
    \/ \E fulfillment \in Fulfillments : ValidateAndApproveFulfillment(fulfillment)
    \/ ClockTick

SpecMonitor == InitMonitor /\ [][NextMonitor]_vars

----------------------------------------------------------------------------
(* Properties of the event monitor *)

\* The cached escrows of that intent id
EscrowsOfIntent(cache, intent_id) ==
    {k \in DOMAIN cache : cache[k].intent_id = intent_id}

----------------------------------------------------------------------------
(* Outflow validation: validate_outflow_fulfillment, which checks a         *)
(* fulfillment transaction of a connected chain against the hub's intent,   *)
(* and validate_fulfillment, which checks a hub FulfillmentEvent against    *)
(* it.  Specification SpecOutflow.                                          *)

\* The requester's address on the connected chain written two ways, and
\* another address
RequesterAddr == <<"0", "x", "0", "B">>
RequesterAddrShort == <<"0", "x", "b">>
OtherRecipientAddr == <<"0", "x", "a">>

\* validate_outflow_fulfillment's checks that read only the intent and the
\* transaction
IntentIdMatches(intent, tx_params) ==
    NormalizeIntentId(tx_params.intent_id) = NormalizeIntentId(intent.intent_id)

RecipientMatches(intent, tx_params) ==
    /\ intent.requester_addr_connected_chain.some
    /\ NormalizeAddress(tx_params.recipient_addr)
          = NormalizeAddress(intent.requester_addr_connected_chain.value)

AmountUnchecked(intent, tx_params) == TRUE

AmountMatchesDesired(intent, tx_params) ==
    tx_params.amount = intent.desired_amount

\* validate_outflow_fulfillment(validator, intent, tx_params, tx_success)
ValidateOutflowFulfillmentResult(c, intent, tx_params, tx_success, reg) ==
    IF ~tx_success
    THEN OkResult(FALSE, "transaction was not successful", 0)
    ELSE IF ~IntentIdMatches(intent, tx_params)
    THEN OkResult(FALSE, "intent_id does not match", 0)
    ELSE IF ~RecipientMatches(intent, tx_params)
    THEN OkResult(FALSE, "recipient does not match requester", 0)
    ELSE IF ~AmountMatchesDesired(intent, tx_params)
    THEN OkResult(FALSE, "amount does not match desired amount", 0)
    ELSE LET validation_result ==
                 ValidateEscrowSolver(c, intent, tx_params.solver_addr, reg,
                                      tx_params.chain_type)
         IN  IF validation_result.result = "Err" THEN validation_result
             ELSE IF ~validation_result.valid THEN validation_result
             ELSE OkResult(TRUE, "validation successful", validation_result.queries)

\* The timestamp check of validate_fulfillment, were it to turn down the
\* instant of expiry too
FulfillmentAtOrAfterExpiry(intent, fulfillment) ==
    fulfillment.timestamp >= intent.expiry_time

\* fulfillment.timestamp > intent.expiry_time
FulfillmentAfterExpiry(intent, fulfillment) ==
    fulfillment.timestamp > intent.expiry_time

\* CrossChainValidator::validate_fulfillment(intent, fulfillment)
ValidateFulfillmentResult(intent, fulfillment) ==
    IF FulfillmentAfterExpiry(intent, fulfillment)
    THEN OkResult(FALSE, "fulfillment occurred after intent expiry", 0)
    ELSE IF fulfillment.provided_amount # intent.desired_amount
    THEN OkResult(FALSE, "provided amount does not match desired amount", 0)
    ELSE IF fulfillment.provided_metadata # intent.desired_metadata
    THEN OkResult(FALSE, "provided metadata does not match desired metadata", 0)
    ELSE IF fulfillment.intent_id # intent.intent_id
    THEN OkResult(FALSE, "intent_id does not match", 0)
    ELSE OkResult(TRUE, "validation successful", 0)

\* The hub's outflow intents
OutflowIntents ==
    [intent_id : {IntentId123},
     requester_addr_connected_chain : {None, Some(RequesterAddr)},
     desired_amount : {MaxAmount},
     desired_metadata : {TokenMetadata},
     reserved_solver_addr : {None, Some(HubSolverAddr)},
     expiry_time : {DEFAULT_EXPIRY_DURATION}]

\* FulfillmentTransactionParams as extracted from a transaction of a connected
\* chain of either kind, with the transaction's success flag
FulfillmentTransactions ==
    [params : [intent_id : {IntentId00123, IntentId999},
               recipient_addr : {RequesterAddrShort, OtherRecipientAddr},
               amount : {0, MaxAmount},
               solver_addr : {SolverAddrUpper, OtherSolverAddr},
               chain_type : {"Evm", "Mvm"}],
     success : BOOLEAN]

\* FulfillmentEvents of the hub chain
FulfillmentEvents ==
    [intent_id : {IntentId123, IntentId999},
     provided_amount : {0, MaxAmount},
     provided_metadata : {TokenMetadata, OtherTokenMetadata},
     timestamp : Instants]

InitOutflow ==
    /\ EscrowIdle
    /\ MonitorIdle
    /\ CodecIdle
    /\ NormalizerIdle
    /\ EvmIdle
    /\ crate \in Crates
    /\ intent_event \in OutflowIntents
    /\ escrow_event = <<>>
    /\ registry \in Registries
    /\ validation = NoValidation
    /\ fulfillment_tx \in FulfillmentTransactions
    /\ fulfillment_event \in FulfillmentEvents

\* validate_outflow_fulfillment(validator, intent, tx_params, tx_success)
ValidateOutflowFulfillment ==
    /\ validation' =
          [op |-> "validate_outflow_fulfillment",
           out |-> ValidateOutflowFulfillmentResult(crate, intent_event,
                                                    fulfillment_tx.params,
                                                    fulfillment_tx.success, registry)]
    /\ UNCHANGED <<outside_validator, validator_inputs>>

\* validator.validate_fulfillment(intent, fulfillment)
ValidateFulfillment ==
    /\ validation' =
          [op |-> "validate_fulfillment",
           out |-> ValidateFulfillmentResult(intent_event, fulfillment_event)]
    /\ UNCHANGED <<outside_validator, validator_inputs>>

NextOutflow ==
    \/ ValidateOutflowFulfillment
    \/ ValidateFulfillment

SpecOutflow == InitOutflow /\ [][NextOutflow]_vars

\* The connected-chain address the registry holds for the intent's solver
ResolvedOutflowSolverAddr(reg, tx_params) ==
    IF ~reg.entry.registered THEN None
    ELSE IF tx_params.chain_type = "Evm" THEN reg.entry.evm_addr
    ELSE reg.entry.mvm_addr

\* The five conditions of outflow validation, each on its own
OutflowChecks(intent, tx, reg) ==
    <<tx.success,
      NormalizeIntentId(tx.params.intent_id) = NormalizeIntentId(intent.intent_id),
      /\ intent.requester_addr_connected_chain.some
      /\ NormalizeAddress(tx.params.recipient_addr)
            = NormalizeAddress(intent.requester_addr_connected_chain.value),
      tx.params.amount = intent.desired_amount,
      /\ intent.reserved_solver_addr.some
      /\ ResolvedOutflowSolverAddr(reg, tx.params).some
      /\ NormalizeAddress(tx.params.solver_addr)
            = NormalizeAddress(ResolvedOutflowSolverAddr(reg, tx.params).value)>>

\* C22: outflow validation is exact. For every (fulfillment transaction,
\* intent) pair for which the registry answers, validate_outflow_fulfillment
\* returns Ok, and valid is true if and only if the transaction succeeded, the
\* normalized intent ids agree, the normalized recipient is the intent's
\* requester on the connected chain, the amount is the desired amount, and the
\* normalized solver is the registry-resolved connected-chain address of the
\* intent's reserved solver.
C22_OutflowValidationExact ==
    /\ validation.op = "validate_outflow_fulfillment"
    /\ RegistryAnswers(registry)
    => /\ validation.out.result = "Ok"
       /\ validation.out.valid <=>
             \A k \in 1..5 : OutflowChecks(intent_event, fulfillment_tx, registry)[k]

\* C22's case: a transaction was found valid whose intent id, recipient and
\* solver are written differently from the intent's and the registry's and
\* agree only after normalization
C22_Witness ==
    /\ validation.op = "validate_outflow_fulfillment"
    /\ validation.out.valid
    /\ fulfillment_tx.params.intent_id # intent_event.intent_id
    /\ fulfillment_tx.params.recipient_addr
          # intent_event.requester_addr_connected_chain.value
    /\ fulfillment_tx.params.solver_addr
          # ResolvedOutflowSolverAddr(registry, fulfillment_tx.params).value

\* C23: fulfillment timing against intent expiry is inclusive.
\* validate_fulfillment never raises on the timing; it turns down, with a
\* negative ValidationResult, every fulfillment whose timestamp is greater
\* than the intent's expiry_time, and it accepts a fulfillment whose
\* timestamp equals expiry_time when its intent id, amount and metadata are
\* the intent's.
C23_FulfillmentExpiryInclusive ==
    validation.op = "validate_fulfillment" =>
        /\ validation.out.result = "Ok"
        /\ fulfillment_event.timestamp > intent_event.expiry_time
              => ~validation.out.valid
        /\ /\ fulfillment_event.timestamp = intent_event.expiry_time
           /\ fulfillment_event.intent_id = intent_event.intent_id
           /\ fulfillment_event.provided_amount = intent_event.desired_amount
           /\ fulfillment_event.provided_metadata = intent_event.desired_metadata
           => validation.out.valid

\* C23's case: a fulfillment stamped with the very instant of expiry was
\* accepted
C23_Witness ==
    /\ validation.op = "validate_fulfillment"
    /\ fulfillment_event.timestamp = intent_event.expiry_time
    /\ validation.out.valid

----------------------------------------------------------------------------
(* The GMP codec (gmp-common/src/messages.rs) on its own: a message is      *)
(* encoded, the buffer may be cut, extended or retagged on the wire, and is *)
(* decoded as any of the three types or handed to an intake handler of the  *)
(* native escrow program.  Specification SpecCodec.                         *)

\* u64::MAX: the value of eight 0xff bytes
U64Max == FromBeBytes([k \in 1..8 |-> 255])

\* Values of a u64 field: zero, a small amount, a deadline and u64::MAX
U64Values == {0, MaxAmount, DEFAULT_EXPIRY_DURATION, U64Max}

GmpMessageTypes == {"IntentRequirements", "EscrowConfirmation", "FulfillmentProof"}

\* GmpMessageType as u8
Discriminator(type) ==
    CASE type = "IntentRequirements" -> 1
      [] type = "EscrowConfirmation" -> 2
      [] type = "FulfillmentProof" -> 3

\* The fixed size of the messages of a type
MessageSize(type) ==
    CASE type = "IntentRequirements" -> INTENT_REQUIREMENTS_SIZE
      [] type = "EscrowConfirmation" -> ESCROW_CONFIRMATION_SIZE
      [] type = "FulfillmentProof" -> FULFILLMENT_PROOF_SIZE

\* The messages handed to encode, each with its type
GmpMessages ==
    Listed(
        {[type |-> "IntentRequirements", body |-> m] :
            m \in [intent_id : {1}, requester_addr : Requesters,
                   amount_required : U64Values, token_addr : FundedMints,
                   solver_addr : Solvers, expiry : U64Values]}
        \cup {[type |-> "EscrowConfirmation", body |-> m] :
            m \in [intent_id : {1}, escrow_id : {2}, amount_escrowed : U64Values,
                   token_addr : FundedMints, creator_addr : Requesters]}
        \cup {[type |-> "FulfillmentProof", body |-> m] :
            m \in [intent_id : {1}, solver_addr : Solvers,
                   amount_fulfilled : U64Values, timestamp : U64Values]})

\* T::encode(&m) for the message's type T
EncodeMessage(m) ==
    CASE m.type = "IntentRequirements" -> IntentRequirementsEncode(m.body)
      [] m.type = "EscrowConfirmation" -> EscrowConfirmationEncode(m.body)
      [] m.type = "FulfillmentProof" -> FulfillmentProofEncode(m.body)

\* T::decode(data) for a type T
DecodeAs(type, data) ==
    CASE type = "IntentRequirements" -> IntentRequirementsDecode(data)
      [] type = "EscrowConfirmation" -> EscrowConfirmationDecode(data)
      [] type = "FulfillmentProof" -> FulfillmentProofDecode(data)

\* Lengths a buffer may have on arrival: none, one byte, and each fixed size
\* with its two neighbours
WireLengths ==
    {0, 1} \cup {MessageSize(t) + d : t \in GmpMessageTypes, d \in {-1, 0, 1}}

\* First bytes a buffer may have on arrival
WireTags == 0..4 \cup {255}

\* The first n bytes of a buffer, zero-filled where it is shorter
Resized(data, n) == [k \in 1..n |-> IF k <= Len(data) THEN data[k] ELSE 0]

CodecOut(op, type, out) == [op |-> op, type |-> type, out |-> out]
NoCodecOut == CodecOut("none", "none", [ok |-> TRUE])
\* An intake instruction that failed: its error, and whether its gmp_caller
\* had signed
Rejected(res, i) == [ok |-> FALSE, err |-> res, signed |-> i.gmp_caller.is_signer]

\* The accounts an intake instruction comes with
RequirementsIntake(payload) ==
    {[payload |-> payload, requirements_account |-> a, gmp_caller |-> c] :
        a \in IntentIds, c \in GmpCallers}

ProofIntake(payload) ==
    {[payload |-> payload, requirements_account |-> a, escrow_account |-> a,
      dest |-> TokenAccount(s, m), gmp_caller |-> c] :
        a \in IntentIds, s \in Solvers, m \in FundedMints, c \in GmpCallers}

InitCodec ==
    /\ program = "native"
    /\ now = 0
    /\ state = [exists |-> FALSE, approver |-> DefaultPubkey]
    /\ escrows = [i \in IntentIds |-> EmptyEscrow]
    /\ requirements = [i \in IntentIds |-> EmptyRequirements]
    /\ vault = [i \in IntentIds |-> 0]
    /\ payouts = [i \in IntentIds |-> <<>>]
    /\ issued = {}
    /\ last = NoOutcome("Deploy")
    /\ ValidatorIdle
    /\ MonitorIdle
    /\ NormalizerIdle
    /\ EvmIdle
    /\ gmp_message \in GmpMessages
    /\ buffer = <<>>
    /\ codec_out = NoCodecOut

\* T::encode(&message)
Encode ==
    /\ buffer' = EncodeMessage(gmp_message)
    /\ codec_out' = CodecOut("encode", gmp_message.type, [ok |-> TRUE])
    /\ UNCHANGED <<outside_codec, escrow_vars, gmp_message>>

\* The wire delivers the encoded buffer cut short, or one zero byte longer
Resize(n) ==
    /\ codec_out.op = "encode"
    /\ n <= Len(buffer) + 1
    /\ buffer' = Resized(buffer, n)
    /\ codec_out' = CodecOut("resize", gmp_message.type, [ok |-> TRUE])
    /\ UNCHANGED <<outside_codec, escrow_vars, gmp_message>>

\* The wire delivers the buffer with another first byte
Retag(tag) ==
    /\ codec_out.op \in {"encode", "resize"}
    /\ buffer # <<>>
    /\ buffer' = [buffer EXCEPT ![1] = tag]
    /\ codec_out' = CodecOut("retag", gmp_message.type, [ok |-> TRUE])
    /\ UNCHANGED <<outside_codec, escrow_vars, gmp_message>>

\* T::decode(&buffer)
Decode(type) ==
    /\ codec_out' = CodecOut("decode", type, DecodeAs(type, buffer))
    /\ UNCHANGED <<outside_codec, escrow_vars, gmp_message, buffer>>

\* The buffer arrives as the payload of LzReceiveRequirements: the program
\* runs process_lz_receive_requirements, and its error, if any, is kept
DeliverRequirements(i) ==
    LET m == IntentRequirementsDecode(buffer)
        res == NativeReceiveRequirementsResult(i, m)
    IN  IF res = "Ok"
        THEN NativeLzReceiveRequirements(i, m)
        ELSE /\ codec_out' = CodecOut("LzReceiveRequirements", "IntentRequirements",
                                      Rejected(res, i))
             /\ UNCHANGED <<outside_codec, escrow_vars, gmp_message, buffer>>

\* The buffer arrives as the payload of LzReceiveFulfillmentProof
DeliverFulfillmentProof(i) ==
    LET m == FulfillmentProofDecode(buffer)
        res == NativeReceiveFulfillmentProofResult(i, m)
    IN  IF res = "Ok"
        THEN NativeLzReceiveFulfillmentProof(i, m)
        ELSE /\ codec_out' = CodecOut("LzReceiveFulfillmentProof", "FulfillmentProof",
                                      Rejected(res, i))
             /\ UNCHANGED <<outside_codec, escrow_vars, gmp_message, buffer>>

NextCodec ==
    \/ Encode
    \/ \E n \in WireLengths : Resize(n)
    \/ \E tag \in WireTags : Retag(tag)
    \/ \E type \in GmpMessageTypes : Decode(type)
    \/ \E i \in RequirementsIntake(buffer) : DeliverRequirements(i)
    \/ \E i \in ProofIntake(buffer) : DeliverFulfillmentProof(i)

SpecCodec == InitCodec /\ [][NextCodec]_vars

----------------------------------------------------------------------------
(* Properties of the codec, checked under SpecCodec *)

\* The types the buffer decodes as
DecodableAs(data) == {t \in GmpMessageTypes : DecodeAs(t, data).ok}

\* The message type an intake instruction of the escrow program expects
IntakeType(op) ==
    IF op = "LzReceiveRequirements" THEN "IntentRequirements" ELSE "FulfillmentProof"

IntakeOps == {"LzReceiveRequirements", "LzReceiveFulfillmentProof"}

\* C24: no message type is decoded as another. Every buffer decodes as at most
\* one of IntentRequirements, EscrowConfirmation and FulfillmentProof; an
\* intake instruction whose payload does not decode as the type it expects
\* (a payload of another type, or a corrupted one) is rejected, with
\* InvalidGmpMessage once the gmp_caller check has passed, and no step stores
\* requirements, marks them fulfilled or moves tokens on behalf of an intake
\* whose payload does not decode as its type.
C24_NoCrossTypeDecode ==
    /\ [](Cardinality(DecodableAs(buffer)) <= 1)
    /\ [](codec_out.op \in IntakeOps /\ ~DecodeAs(codec_out.type, buffer).ok
            => /\ ~codec_out.out.ok
               /\ codec_out.out.signed => codec_out.out.err = "InvalidGmpMessage")
    /\ [][/\ <<requirements, escrows, vault, payouts>>' #
                 <<requirements, escrows, vault, payouts>>
             => /\ last'.op \in IntakeOps
                /\ DecodeAs(IntakeType(last'.op), buffer).ok
          /\ \A op \in IntakeOps :
                ~DecodeAs(IntakeType(op), buffer).ok /\ last'.op = op
                    => UNCHANGED <<requirements, escrows, vault, payouts>>]_vars

\* An encoded FulfillmentProof was delivered to LzReceiveRequirements by a
\* signing caller and rejected with InvalidGmpMessage, nothing being stored
C24_Witness ==
    /\ gmp_message.type = "FulfillmentProof"
    /\ buffer = EncodeMessage(gmp_message)
    /\ codec_out.op = "LzReceiveRequirements"
    /\ codec_out.out.signed
    /\ codec_out.out.err = "InvalidGmpMessage"
    /\ \A a \in IntentIds : ~requirements[a].exists

\* C25: T::decode(buffer) succeeds exactly when the buffer has T's fixed size
\* (145, 137 or 81 bytes) and its byte 0 is T's discriminator; a buffer of any
\* other length fails with InvalidLength{expected: the size, got: its length}
\* whatever its first byte, and a buffer of the right length with another
\* first byte fails with InvalidMessageType{expected: the discriminator,
\* got: the byte}.
C25_DecodeIffSizeAndDiscriminator ==
    codec_out.op = "decode" =>
        LET T == codec_out.type
            out == codec_out.out
        IN  /\ MessageSize("IntentRequirements") = 145
            /\ MessageSize("EscrowConfirmation") = 137
            /\ MessageSize("FulfillmentProof") = 81
            /\ out.ok <=> (Len(buffer) = MessageSize(T) /\ buffer[1] = Discriminator(T))
            /\ Len(buffer) # MessageSize(T)
                => /\ ~out.ok
                   /\ out.err = "InvalidLength"
                   /\ out.expected = MessageSize(T)
                   /\ out.got = Len(buffer)
            /\ Len(buffer) = MessageSize(T) /\ buffer[1] # Discriminator(T)
                => /\ ~out.ok
                   /\ out.err = "InvalidMessageType"
                   /\ out.expected = Discriminator(T)
                   /\ out.got = buffer[1]

\* A buffer of 144 bytes that carries another type's discriminator was decoded
\* as IntentRequirements: InvalidLength, expected 145, got 144
C25_Witness ==
    /\ codec_out.op = "decode"
    /\ codec_out.type = "IntentRequirements"
    /\ Len(buffer) = 144
    /\ buffer[1] = 2
    /\ ~codec_out.out.ok
    /\ codec_out.out.err = "InvalidLength"
    /\ codec_out.out.expected = 145
    /\ codec_out.out.got = 144

\* The fields of a decoded message, without the ok flag
DecodedBody(out) == [f \in (DOMAIN out) \ {"ok"} |-> out[f]]

\* C26: round trip. For every message m of each of the three types, with any
\* field values including zero and u64::MAX amounts, expiries and timestamps,
\* encode(m) is a buffer of the type's fixed size that starts with its
\* discriminator, and decoding it as that type succeeds and gives back m,
\* field by field.
C26_RoundTrip ==
    codec_out.op = "encode" =>
        LET T == gmp_message.type
            out == DecodeAs(T, buffer)
        IN  /\ codec_out.out.ok
            /\ Len(buffer) = MessageSize(T)
            /\ buffer[1] = Discriminator(T)
            /\ \A k \in DOMAIN buffer : buffer[k] \in 0..255
            /\ out.ok
            /\ DecodedBody(out) = gmp_message.body

\* A FulfillmentProof with amount_fulfilled zero and timestamp u64::MAX has
\* been encoded (its last eight bytes are 0xff) and decodes to itself
C26_Witness ==
    /\ codec_out.op = "encode"
    /\ gmp_message.type = "FulfillmentProof"
    /\ gmp_message.body.amount_fulfilled = 0
    /\ gmp_message.body.timestamp = U64Max
    /\ \A k \in 74..81 : buffer[k] = 255
    /\ \A k \in 66..73 : buffer[k] = 0
    /\ FulfillmentProofDecode(buffer).timestamp = U64Max

\* The distinct events applied so far, by kind
RequirementsApplied == {e[2] : e \in {x \in applied : x[1] = "requirements"}}
EscrowsApplied == {e[2] : e \in {x \in applied : x[1] = "escrow"}}

\* The cache as it was before any event was applied
Unready(cache) ==
    [k \in DOMAIN cache |-> [cache[k] EXCEPT !.ready_on_connected_chain = FALSE]]

\* mark_intent_ready called exactly once for each of the ids, one after another
RECURSIVE MarkedOnceEach(_, _)
MarkedOnceEach(cache, ids) ==
    IF ids = {} THEN cache
    ELSE LET id == CHOOSE x \in ids : TRUE
         IN  MarkedOnceEach(WithIntentReady(cache, id), ids \ {id})

MarkableIds == {IntentId123, IntentId00123, IntentIdA, IntentId0a, IntentId999}

\* C28: mark_intent_ready is idempotent. For every cache and every id, two and
\* three calls in a row leave the cache exactly as a single call does; a call
\* for an id that was applied before, however long ago, changes nothing; and
\* no call returns an error.
C28_MarkReadyIdempotent ==
    /\ \A id \in MarkableIds :
          LET once == WithIntentReady(event_cache, id)
              twice == WithIntentReady(once, id)
              thrice == WithIntentReady(twice, id)
          IN  /\ twice = once
              /\ thrice = once
    /\ \A id \in RequirementsApplied : WithIntentReady(event_cache, id) = event_cache
    /\ monitor_call.op = "mark_intent_ready" => monitor_call.result = "Ok"

\* The Move VM poller has marked intent 0x123 under both its spellings, a
\* direct call has marked it once more, and the intent is ready while the
\* other cached intent is not
C28_Witness ==
    /\ event_cache = <<CachedIntent(IntentId0a, FALSE), CachedIntent(IntentId123, TRUE)>>
    /\ pollers["mvm"].count = 2
    /\ pollers["mvm"].pending = <<>>
    /\ pollers["svm"] = IdlePoller
    /\ RequirementsApplied = {IntentId123, IntentId00123}
    /\ monitor_call = MonitorOk("mark_intent_ready", IntentId123)

\* The cached intents that mark_intent_ready(raw_id) is about
MatchingIntents(cache, raw_id) ==
    {k \in DOMAIN cache :
        NormalizeIntentId(cache[k].intent_id) = NormalizeIntentId(raw_id)}

\* C29: mark_intent_ready(raw_id) changes exactly the matching intents and
\* nothing else. A step that calls it, directly or from a poller, keeps the
\* cache's length and order, sets ready_on_connected_chain on every cached
\* intent whose normalized id equals the normalized raw_id (0x123 matches a
\* cached 0x00123), leaves every other intent and every other field as they
\* were, does not touch the escrow cache or the approvals, and returns no
\* error; when no cached intent matches, the cache is unchanged.
C29_MarkReadyFrame ==
    /\ [][\A raw_id \in MarkableIds :
            /\ <<"requirements", raw_id>> \in applied'
            /\ \/ /\ monitor_call'.op = "mark_intent_ready"
                  /\ monitor_call'.arg = raw_id
                  /\ monitor_call' # monitor_call
               \/ /\ applied' # applied
                  /\ applied' = applied \cup {<<"requirements", raw_id>>}
               \/ \E p \in RequirementsPollers :
                     /\ pollers[p].pending # <<>>
                     /\ pollers'[p].count = pollers[p].count + 1
                     /\ Head(pollers[p].pending) = RequirementsReceived(raw_id)
            => /\ DOMAIN event_cache' = DOMAIN event_cache
               /\ \A k \in DOMAIN event_cache :
                     /\ event_cache'[k].intent_id = event_cache[k].intent_id
                     /\ event_cache'[k].desired_amount = event_cache[k].desired_amount
                     /\ event_cache'[k].revocable = event_cache[k].revocable
                     /\ event_cache'[k].ready_on_connected_chain =
                           IF k \in MatchingIntents(event_cache, raw_id)
                           THEN TRUE
                           ELSE event_cache[k].ready_on_connected_chain
               /\ MatchingIntents(event_cache, raw_id) = {}
                     => event_cache' = event_cache
               /\ UNCHANGED <<escrow_cache, approvals>>
               /\ monitor_call'.op = "mark_intent_ready"
                     => monitor_call'.result = "Ok"]_vars
    /\ [](MatchingIntents(<<CachedIntent(IntentId00123, FALSE)>>, IntentId123) = {1})

\* 0x123 has been marked ready by a direct call while the cache held 0x00123
\* and 0xA: the former is ready and the latter is not
C29_Witness ==
    /\ monitor_call = MonitorOk("mark_intent_ready", IntentId123)
    /\ event_cache = <<CachedIntent(IntentId00123, TRUE), CachedIntent(IntentIdA, FALSE)>>
    /\ RequirementsApplied = {IntentId123}

----------------------------------------------------------------------------
(* The normalizers of addresses and intent ids: the comparison forms of the *)
(* validators and the monitor (prefix and leading zeros stripped, lower     *)
(* case) and the 32-byte forms (hex_to_bytes32 of the escrow CLI, the       *)
(* intent id bytes of create_evm_approval_signature).                       *)
(* Specification SpecNormalizer.                                            *)

\* The width of an intent id or address in bytes
BYTES32 == 32

\* The value of a hex digit, -1 for any other character
HexDigit(c) ==
    CASE c = "0" -> 0 [] c = "1" -> 1 [] c = "2" -> 2 [] c = "3" -> 3
      [] c = "4" -> 4 [] c = "5" -> 5 [] c = "6" -> 6 [] c = "7" -> 7
      [] c = "8" -> 8 [] c = "9" -> 9
      [] c \in {"a", "A"} -> 10 [] c \in {"b", "B"} -> 11
      [] c \in {"c", "C"} -> 12 [] c \in {"d", "D"} -> 13
      [] c \in {"e", "E"} -> 14 [] c \in {"f", "F"} -> 15
      [] OTHER -> -1

\* Result<Vec<u8>, _>
BytesOk(bytes) == [ok |-> TRUE, err |-> "", bytes |-> bytes]
BytesErr(err) == [ok |-> FALSE, err |-> err, bytes |-> <<>>]

\* hex::decode: two digits a byte; a text of odd length or with a character
\* that is no hex digit is an error
HexDecode(hex) ==
    IF Len(hex) % 2 = 1 THEN BytesErr("OddLength")
    ELSE IF \E k \in DOMAIN hex : HexDigit(hex[k]) < 0
    THEN BytesErr("InvalidHexCharacter")
    ELSE BytesOk([k \in 1..(Len(hex) \div 2) |->
                     16 * HexDigit(hex[2 * k - 1]) + HexDigit(hex[2 * k])])

\* bytes right-aligned in an array of 32 zero bytes
RightAligned(bytes) ==
    [k \in 1..BYTES32 |->
        IF k <= BYTES32 - Len(bytes) THEN 0 ELSE bytes[k - (BYTES32 - Len(bytes))]]

\* hex_to_bytes32: the 0x prefix is dropped, a text of odd length gets one
\* more leading zero, and the bytes are right-aligned; it panics on a text
\* that is no hex, and in copy_from_slice on more than 32 bytes
HexToBytes32(hex_string) ==
    LET stripped == StripPrefix0x(hex_string)
        hex == IF Len(stripped) % 2 = 1 THEN <<"0">> \o stripped ELSE stripped
        hex_bytes == HexDecode(hex)
    IN  IF ~hex_bytes.ok THEN BytesErr("panic: Invalid hex string")
        ELSE IF Len(hex_bytes.bytes) > BYTES32
        THEN BytesErr("panic: source slice length does not match")
        ELSE BytesOk(RightAligned(hex_bytes.bytes))

\* The n-fold repetition of a text
RECURSIVE Repeated(_, _)
Repeated(text, n) == IF n = 0 THEN <<>> ELSE text \o Repeated(text, n - 1)

\* The intent id bytes that create_evm_approval_signature signs: the id
\* without its 0x prefix, zero-padded on the left to 64 hex digits and
\* decoded; anything that does not decode to 32 bytes is an error
EvmIntentIdBytes(intent_id) ==
    LET stripped == StripPrefix0x(intent_id)
        padded == IF Len(stripped) < 2 * BYTES32
                  THEN Repeated(<<"0">>, 2 * BYTES32 - Len(stripped)) \o stripped
                  ELSE stripped
        decoded == HexDecode(padded)
    IN  IF ~decoded.ok THEN BytesErr("Invalid intent ID hex")
        ELSE IF Len(decoded.bytes) # BYTES32 THEN BytesErr("Invalid intent ID length")
        ELSE decoded

\* Address and intent id strings as the chains and the tests write them
Id1234 == <<"0", "x", "1", "2", "3", "4">>
Id1234Bare == <<"1", "2", "3", "4">>
Id1234Zeros == <<"0", "x", "0", "0", "1", "2", "3", "4">>
IdABUpper == <<"0", "x", "A", "B">>
Id0abOdd == <<"0", "x", "0", "a", "b">>
IdabBare == <<"a", "b">>
IdBOdd == <<"0", "x", "B">>
IdZero == <<"0", "x", "0">>
IdEmpty == <<"0", "x">>
IdFull == <<"0", "x">> \o Repeated(<<"1", "2">>, BYTES32)
IdFullBareUpper == <<"A", "B">> \o Repeated(<<"1", "2">>, BYTES32 - 1)
IdFullLower == <<"0", "x", "a", "b">> \o Repeated(<<"1", "2">>, BYTES32 - 1)
Id1234Full == <<"0", "x">> \o Repeated(<<"0">>, 2 * BYTES32 - 4) \o Id1234Bare
IdTooLong == <<"0", "x">> \o Repeated(<<"1", "2">>, BYTES32 + 3)
IdTooLongOther == <<"0", "x", "3", "4">> \o Repeated(<<"1", "2">>, BYTES32 + 2)
IdTooLongZeros == <<"0", "x", "0", "0">> \o Repeated(<<"1", "2">>, BYTES32)
IdInvalidHex == <<"0", "x", "z", "z">>

NormalizerInputs ==
    {Id1234, Id1234Bare, Id1234Zeros, IdABUpper, Id0abOdd, IdabBare, IdBOdd, IdZero,
     IdEmpty, IdFull, IdFullBareUpper, IdFullLower, Id1234Full, IdTooLong,
     IdTooLongOther, IdTooLongZeros, IdInvalidHex}

\* What a comparison after normalization gave, and what a conversion to 32
\* bytes gave for each of the two strings
Compared(op, left, right) ==
    [op |-> op, equal |-> left = right, left |-> left, right |-> right]
NotNormalized == Compared("none", <<>>, <<>>)

InitNormalizer ==
    /\ EscrowIdle
    /\ ValidatorIdle
    /\ MonitorIdle
    /\ CodecIdle
    /\ EvmIdle
    /\ lhs \in NormalizerInputs
    /\ rhs \in NormalizerInputs
    /\ normalized = NotNormalized

\* Two addresses wrapped as metadata are compared as validate_intent_fulfillment
\* compares offered metadata
CompareMetadata ==
    /\ normalized' = Compared("normalize_metadata_for_comparison",
                              NormalizeMetadataForComparison(InnerJson(lhs)),
                              NormalizeMetadataForComparison(InnerJson(rhs)))
    /\ UNCHANGED <<outside_normalizer, lhs, rhs>>

\* Two intent ids are compared as the monitor compares them
CompareIntentIds ==
    /\ normalized' = Compared("normalize_intent_id",
                              NormalizeIntentId(lhs), NormalizeIntentId(rhs))
    /\ UNCHANGED <<outside_normalizer, lhs, rhs>>

\* Two solver addresses are compared as the validators compare them
CompareAddresses ==
    /\ normalized' = Compared("normalize_address",
                              NormalizeAddress(lhs), NormalizeAddress(rhs))
    /\ UNCHANGED <<outside_normalizer, lhs, rhs>>

\* parse_intent_id of the escrow CLI on each of the two strings
ParseIntentId ==
    /\ normalized' = Compared("hex_to_bytes32", HexToBytes32(lhs), HexToBytes32(rhs))
    /\ UNCHANGED <<outside_normalizer, lhs, rhs>>

\* create_evm_approval_signature on each of the two strings, up to the bytes
\* it signs
CreateEvmApprovalSignature ==
    /\ normalized' = Compared("create_evm_approval_signature",
                              EvmIntentIdBytes(lhs), EvmIntentIdBytes(rhs))
    /\ UNCHANGED <<outside_normalizer, lhs, rhs>>

NextNormalizer ==
    \/ CompareMetadata
    \/ CompareIntentIds
    \/ CompareAddresses
    \/ ParseIntentId
    \/ CreateEvmApprovalSignature

SpecNormalizer == InitNormalizer /\ [][NextNormalizer]_vars

----------------------------------------------------------------------------
(* Properties of the normalizers, checked under SpecNormalizer *)

\* The hex digits a string denotes: those behind its 0x prefix, as numbers
DigitsOf(s) == [k \in DOMAIN StripPrefix0x(s) |-> HexDigit(StripPrefix0x(s)[k])]

IsHex(s) == \A k \in DOMAIN DigitsOf(s) : DigitsOf(s)[k] >= 0

\* The string denotes no more bytes than the target width holds
FitsWidth(s) == IsHex(s) /\ (Len(DigitsOf(s)) + 1) \div 2 <= BYTES32

\* The byte sequence a string denotes once left-padded to the target width
RECURSIVE WithoutLeadingZeroDigits(_)
WithoutLeadingZeroDigits(d) ==
    IF d # <<>> /\ d[1] = 0 THEN WithoutLeadingZeroDigits(Tail(d)) ELSE d

CanonicalBytes(s) ==
    LET d == DigitsOf(s)
        pad == 2 * BYTES32 - Len(d)
        nibble(k) == IF k <= pad THEN 0 ELSE d[k - pad]
    IN  [k \in 1..BYTES32 |-> 16 * nibble(2 * k - 1) + nibble(2 * k)]

ComparisonOps ==
    {"normalize_metadata_for_comparison", "normalize_intent_id", "normalize_address"}
Bytes32Ops == {"hex_to_bytes32", "create_evm_approval_signature"}

----------------------------------------------------------------------------
(* The readers of EVM data: get_escrow_created_events of the integrated-gmp *)
(* EVM client, which turns the logs of eth_getLogs into EscrowCreated       *)
(* events, and extract_evm_fulfillment_params, which reads an ERC20         *)
(* transfer out of the calldata of a transaction.                           *)
(* Specification SpecEvm.                                                   *)
(*                                                                          *)
(* A 256-bit word is 64 hex digits.  The value of a u64 or of a word is     *)
(* written as its hex digits without leading zeros (0 is the empty          *)
(* sequence), so that values beyond 64 bits stay representable: a value is  *)
(* at most u64::MAX exactly if it has at most 16 digits.                    *)

\* The hex digits of a u64
U64_HEX_DIGITS == 16

\* The hex digits of a 256-bit word
WORD_HEX_DIGITS == 64

\* &s[from..]
SliceFrom(s, from) == SubSeq(s, from + 1, Len(s))

\* Result<u64, ParseIntError>
U64Ok(value) == [ok |-> TRUE, err |-> "", value |-> value]
U64Err(err) == [ok |-> FALSE, err |-> err, value |-> <<>>]

\* u64::from_str_radix(text, 16): one leading + is accepted; an empty text,
\* a text with a character that is no hex digit, and a value beyond 64 bits
\* are errors
U64FromStrRadix16(text) ==
    LET digits == IF text # <<>> /\ text[1] = "+" THEN Tail(text) ELSE text
        value == WithoutLeadingZeroDigits([k \in DOMAIN digits |-> HexDigit(digits[k])])
    IN  IF text = <<>> THEN U64Err("Empty")
        ELSE IF digits = <<>> \/ \E k \in DOMAIN digits : HexDigit(digits[k]) < 0
        THEN U64Err("InvalidDigit")
        ELSE IF Len(value) > U64_HEX_DIGITS THEN U64Err("PosOverflow")
        ELSE U64Ok(value)

\* Result::unwrap_or(0)
UnwrapOrZero(parsed) == IF parsed.ok THEN parsed.value ELSE <<>>

\* EscrowCreatedEvent
EscrowCreatedEvent(intent_id, escrow_id, requester_addr, amount, token_addr, reserved_solver, expiry, block_number, transaction_hash) ==
    [intent_id |-> intent_id, escrow_id |-> escrow_id,
     requester_addr |-> requester_addr, amount |-> amount,
     token_addr |-> token_addr, reserved_solver |-> reserved_solver,
     expiry |-> expiry, block_number |-> block_number,
     transaction_hash |-> transaction_hash]

\* The body of the loop over the logs for a log that is not skipped: the
\* event built from the topics and the four words of data.  amount and
\* expiry are parsed from the last 16 digits of their words
EventOfLog(log) ==
    LET data == StripPrefix0x(log.data)
    IN  EscrowCreatedEvent(
            log.topics[2],
            <<"0", "x">> \o Slice(data, 0, 64),
            <<"0", "x">> \o SliceFrom(log.topics[3], 26),
            UnwrapOrZero(U64FromStrRadix16(Slice(data, 112, 128))),
            <<"0", "x">> \o SliceFrom(log.topics[4], 26),
            <<"0", "x">> \o Slice(data, 128, 192),
            UnwrapOrZero(U64FromStrRadix16(Slice(data, 240, 256))),
            log.block_number,
            log.transaction_hash)

\* continue: a log with fewer than four topics, or with fewer than 256
\* characters of data, is passed over
LogSkipped(log) ==
    \/ Len(log.topics) < 4
    \/ Len(StripPrefix0x(log.data)) < 256

\* Slicing a topic of fewer than 26 characters from 26 on panics
LogPanics(log) ==
    /\ Len(log.topics) >= 4
    /\ \/ Len(log.topics[3]) < 26
       \/ Len(log.topics[4]) < 26

\* for log in logs { ... events.push(...) }
RECURSIVE EventsOfLogs(_, _)
EventsOfLogs(logs, events) ==
    IF logs = <<>> THEN [kind |-> "Ok", events |-> events, err |-> ""]
    ELSE IF LogPanics(Head(logs))  \* the topics are sliced before the data is measured
    THEN [kind |-> "Panic", events |-> <<>>, err |-> "byte index 26 is out of range"]
    ELSE IF LogSkipped(Head(logs)) THEN EventsOfLogs(Tail(logs), events)
    ELSE EventsOfLogs(Tail(logs), Append(events, EventOfLog(Head(logs))))

\* get_escrow_created_events, once the node has answered: a JSON-RPC error
\* is an error, a missing result is no logs
GetEscrowCreatedEventsResult(response) ==
    IF response.error.some
    THEN [kind |-> "Err", events |-> <<>>, err |-> "JSON-RPC error"]
    ELSE EventsOfLogs(IF response.result.some THEN response.result.value ELSE <<>>, <<>>)

\* The selector of transfer(address,uint256)
ERC20_TRANSFER_SELECTOR == <<"a", "9", "0", "5", "9", "c", "b", "b">>

\* Result<FulfillmentParams, _>
ParamsOk(params) == [ok |-> TRUE, err |-> "", params |-> params]
ParamsErr(err) == [ok |-> FALSE, err |-> err, params |-> <<>>]

\* extract_evm_fulfillment_params: the calldata is the selector of
\* transfer, the recipient word, the amount word and the intent id word.  A
\* calldata with another selector or too short for the three words is an
\* error, and so is an amount beyond u64::MAX; the solver is the sender of
\* the transaction and the token its receiver
ExtractEvmFulfillmentParams(tx) ==
    LET input == StripPrefix0x(tx.input)
        amount_word == Slice(input, 8 + WORD_HEX_DIGITS, 8 + 2 * WORD_HEX_DIGITS)
        amount == WithoutLeadingZeroDigits(
                      [k \in DOMAIN amount_word |-> HexDigit(amount_word[k])])
    IN  IF Len(input) < 8 \/ Slice(input, 0, 8) # ERC20_TRANSFER_SELECTOR
        THEN ParamsErr("Transaction is not an ERC20 transfer call")
        ELSE IF Len(input) < 8 + 3 * WORD_HEX_DIGITS
        THEN ParamsErr("Insufficient calldata length")
        ELSE IF \E k \in DOMAIN amount_word : HexDigit(amount_word[k]) < 0
        THEN ParamsErr("Invalid amount hex")
        ELSE IF Len(amount) > U64_HEX_DIGITS
        THEN ParamsErr("Amount exceeds u64::MAX; Move contracts only support u64")
        ELSE ParamsOk([recipient_addr |-> <<"0", "x">> \o Slice(input, 8 + 24, 8 + WORD_HEX_DIGITS),
                       amount |-> amount,
                       intent_id |-> NormalizeIntentId(
                           <<"0", "x">> \o SliceFrom(input, 8 + 2 * WORD_HEX_DIGITS)),
                       solver_addr |-> tx.from,
                       token_metadata |-> tx.to])

\* text as a 256-bit word: zero-padded on the left to 64 digits
Word(text) == Repeated(<<"0">>, WORD_HEX_DIGITS - Len(text)) \o text

\* Amount and expiry words: 25000000, u64::MAX, 2^64, 2^64 + 25000000,
\* 2^256 - 1 and a word that is no hex
Amount17d7840 == <<"1", "7", "d", "7", "8", "4", "0">>
AmountWords ==
    {Word(Amount17d7840),
     Word(Repeated(<<"f">>, U64_HEX_DIGITS)),
     Word(<<"1">> \o Repeated(<<"0">>, U64_HEX_DIGITS)),
     Word(<<"1">> \o Repeated(<<"0">>, U64_HEX_DIGITS - 7) \o Amount17d7840),
     Repeated(<<"f">>, WORD_HEX_DIGITS),
     Word(<<"z", "z">>)}
ExpiryWords == {Word(<<"6", "5", "0", "0">>), Word(<<"z", "z">>)}

\* The topics of an EscrowCreated log: the signature hash, the intent id,
\* the requester and the token, each address padded to a word
SignatureTopic == <<"0", "x">> \o Repeated(<<"5">>, WORD_HEX_DIGITS)
IntentTopic == <<"0", "x">> \o Word(<<"a", "b">>)
RequesterTopic == <<"0", "x">> \o Word(Repeated(<<"1">>, 40))
TokenTopic == <<"0", "x">> \o Word(Repeated(<<"2">>, 40))
EscrowTopics == <<SignatureTopic, IntentTopic, RequesterTopic, TokenTopic>>

\* EvmLog
EvmLog(topics, data) ==
    [topics |-> topics, data |-> data, block_number |-> <<"0", "x", "1">>,
     transaction_hash |-> <<"0", "x", "7">>]

\* The data of an EscrowCreated log: escrow id, amount, reserved solver, expiry
EscrowData(amount_word, expiry_word) ==
    Word(<<"e">>) \o amount_word \o Word(Repeated(<<"3">>, 40)) \o expiry_word

\* The logs a node may answer with: whole ones with every amount and expiry
\* word, one without the 0x prefix of its data, one with three topics, one
\* with a character of data missing, and one with a topic that is no word
WholeLogs ==
    {EvmLog(EscrowTopics, <<"0", "x">> \o EscrowData(a, e)) :
        a \in AmountWords, e \in ExpiryWords}
BrokenLogs ==
    {EvmLog(EscrowTopics, EscrowData(Word(Amount17d7840), Word(<<"6", "5", "0", "0">>))),
     EvmLog(SubSeq(EscrowTopics, 1, 3),
            <<"0", "x">> \o EscrowData(Word(Amount17d7840), Word(<<"6", "5", "0", "0">>))),
     EvmLog(EscrowTopics,
            <<"0", "x">> \o Tail(EscrowData(Word(Amount17d7840), Word(<<"6", "5", "0", "0">>)))),
     EvmLog(<<SignatureTopic, IntentTopic, <<"0", "x", "1">>, TokenTopic>>,
            <<"0", "x">> \o EscrowData(Word(Amount17d7840), Word(<<"6", "5", "0", "0">>)))}
EvmLogs == WholeLogs \cup BrokenLogs

\* JsonRpcResponse<Vec<EvmLog>>: an error, no result, or up to two logs
EvmResponses ==
    {[error |-> Some(-32000), result |-> None],
     [error |-> None, result |-> None],
     [error |-> None, result |-> Some(<<>>)]}
        \cup {[error |-> None, result |-> Some(<<l>>)] : l \in EvmLogs}
        \cup {[error |-> None, result |-> Some(<<k, l>>)] : k \in BrokenLogs, l \in EvmLogs}

\* EvmTransaction: the calldata of a transfer with each amount word, of
\* another call, and of a transfer cut short
TransferCalldata(amount_word) ==
    <<"0", "x">> \o ERC20_TRANSFER_SELECTOR \o Word(Repeated(<<"a">>, 40))
        \o amount_word \o Word(<<"0", "0", "1", "2">>)
EvmTransactions ==
    {[input |-> input, from |-> <<"0", "x", "b">>, to |-> <<"0", "x", "a">>] :
        input \in {TransferCalldata(a) : a \in AmountWords}
                    \cup {<<"0", "x", "1", "2", "3", "4", "5", "6", "7", "8">>,
                          <<"0", "x">> \o ERC20_TRANSFER_SELECTOR \o Word(Repeated(<<"a">>, 40))}}

\* No reader has run
NotRead == <<>>

InitEvm ==
    /\ EscrowIdle
    /\ ValidatorIdle
    /\ MonitorIdle
    /\ CodecIdle
    /\ NormalizerIdle
    /\ evm_response \in EvmResponses
    /\ evm_tx \in EvmTransactions
    /\ evm_out = NotRead

\* EvmClient::get_escrow_created_events(from_block, to_block)
GetEscrowCreatedEvents ==
    /\ evm_out' = [op |-> "get_escrow_created_events",
                   read |-> GetEscrowCreatedEventsResult(evm_response)]
    /\ UNCHANGED <<evm_response, evm_tx, outside_evm>>

\* extract_evm_fulfillment_params(&tx)
ExtractEvmFulfillment ==
    /\ evm_out' = [op |-> "extract_evm_fulfillment_params",
                   read |-> ExtractEvmFulfillmentParams(evm_tx)]
    /\ UNCHANGED <<evm_response, evm_tx, outside_evm>>

NextEvm ==
    \/ GetEscrowCreatedEvents
    \/ ExtractEvmFulfillment

SpecEvm == InitEvm /\ [][NextEvm]_vars

----------------------------------------------------------------------------
(* Properties of the EVM readers, checked under SpecEvm *)

\* The value a word of hex digits denotes
IsHexWord(word) == \A k \in DOMAIN word : HexDigit(word[k]) >= 0
WordValue(word) == WithoutLeadingZeroDigits([k \in DOMAIN word |-> HexDigit(word[k])])
WithinU64(word) == Len(WordValue(word)) <= U64_HEX_DIGITS

\* The logs of the answer that carry an event, in their order, and the
\* amount and expiry words of a log
LogsRead == IF evm_response.result.some THEN evm_response.result.value ELSE <<>>
LogWhole(log) == ~LogSkipped(log) /\ ~LogPanics(log)
WholeLogsRead == SelectSeq(LogsRead, LogWhole)
AmountWordOf(log) == Slice(StripPrefix0x(log.data), WORD_HEX_DIGITS, 2 * WORD_HEX_DIGITS)
ExpiryWordOf(log) == Slice(StripPrefix0x(log.data), 3 * WORD_HEX_DIGITS, 4 * WORD_HEX_DIGITS)

\* The amount word of the calldata of a whole transfer
TransferRead ==
    /\ Len(StripPrefix0x(evm_tx.input)) >= 8 + 3 * WORD_HEX_DIGITS
    /\ Slice(StripPrefix0x(evm_tx.input), 0, 8) = ERC20_TRANSFER_SELECTOR
AmountWordOfTx == Slice(StripPrefix0x(evm_tx.input), 8 + WORD_HEX_DIGITS, 8 + 2 * WORD_HEX_DIGITS)

EventsRead == evm_out # NotRead /\ evm_out.op = "get_escrow_created_events"
ParamsRead == evm_out # NotRead /\ evm_out.op = "extract_evm_fulfillment_params"

\* C31: an amount read from a 256-bit word is the value of the whole word
\* when that value is at most u64::MAX, u64::MAX itself included, and the
\* read is an error when the value is greater; this for the amount of a
\* transfer read from calldata and for the amount of an EscrowCreated log
C31_AmountWithinU64OrError ==
    /\ ParamsRead /\ TransferRead /\ IsHexWord(AmountWordOfTx)
          => IF WithinU64(AmountWordOfTx)
             THEN /\ evm_out.read.ok
                  /\ evm_out.read.params.amount = WordValue(AmountWordOfTx)
             ELSE ~evm_out.read.ok
    /\ EventsRead /\ ~evm_response.error.some
          => \A k \in DOMAIN WholeLogsRead :
                IsHexWord(AmountWordOf(WholeLogsRead[k]))
                   => IF WithinU64(AmountWordOf(WholeLogsRead[k]))
                      THEN /\ evm_out.read.kind = "Ok"
                           /\ k \in DOMAIN evm_out.read.events
                           /\ evm_out.read.events[k].amount
                                 = WordValue(AmountWordOf(WholeLogsRead[k]))
                      ELSE evm_out.read.kind # "Ok"

\* A log that does not decode as an EscrowCreated event: too few topics, a
\* topic or the data too short, or an amount or expiry word that is no hex
LogMalformed(log) ==
    \/ LogSkipped(log)
    \/ LogPanics(log)
    \/ ~IsHexWord(AmountWordOf(log))
    \/ ~IsHexWord(ExpiryWordOf(log))

\* C40: structural decode errors are not defaulted when escrow events are
\* read. Whenever the node answers with a log whose topics or data are too
\* short, or whose amount or expiry does not parse, the retrieval does not
\* return Ok: the log is neither dropped nor given the amount or expiry 0
C40_DecodeErrorsReported ==
    EventsRead /\ ~evm_response.error.some
       => \A k \in DOMAIN LogsRead :
             LogMalformed(LogsRead[k]) => evm_out.read.kind # "Ok"

----------------------------------------------------------------------------
(* Further properties of the escrow state machine, checked under Spec *)

\* A Create with a zero amount, or with the zero address for its solver
DegenerateCreate(i) == i.amount = 0 \/ i.reserved_solver = DefaultPubkey

\* The error the handler has for a degenerate Create
DegenerateError(i) == IF i.amount = 0 THEN "InvalidAmount" ELSE "InvalidSolver"

StoredDurations ==
    {DEFAULT_EXPIRY_DURATION} \cup {d.value : d \in {e \in Durations : e.some /\ e.value > 0}}

\* C33: every successful Create stores expiry = now + d, with d the supplied
\* duration when it is positive and the default duration otherwise, so that
\* the stored expiry is strictly greater than the creation time, whatever
\* duration is supplied
C33_ExpiryAfterCreation ==
    last.op = "CreateEscrow" =>
        /\ escrows[last.id].expiry > now
        /\ escrows[last.id].expiry - now \in StoredDurations

\* The instructions that release an escrow
ReleaseOps == {"Claim", "Cancel", "LzReceiveFulfillmentProof"}

\* C34: an escrow is immutable apart from its terminal transition. No step
\* changes the requester, token, expiry, reserved solver or intent id of an
\* existing escrow or removes it; a step that changes an existing escrow at
\* all takes is_claimed from false to true and the amount to 0, both at once,
\* and is a successful Claim, Cancel or fulfillment proof for its intent
C34_ImmutableUntilTerminal ==
    [][\A id \in IntentIds :
         escrows[id].exists =>
            /\ escrows'[id].exists
            /\ escrows'[id].requester = escrows[id].requester
            /\ escrows'[id].token_mint = escrows[id].token_mint
            /\ escrows'[id].expiry = escrows[id].expiry
            /\ escrows'[id].reserved_solver = escrows[id].reserved_solver
            /\ escrows'[id].intent_id = escrows[id].intent_id
            /\ escrows'[id] # escrows[id] =>
                  /\ ~escrows[id].is_claimed /\ escrows'[id].is_claimed
                  /\ escrows[id].amount > 0 /\ escrows'[id].amount = 0
                  /\ last'.op \in ReleaseOps
                  /\ last'.id = id]_vars

\* C34's case: an escrow has just been released and still has the requester,
\* mint, solver and intent id of its Create
C34_Witness ==
    /\ last.op \in ReleaseOps
    /\ escrows[last.id].is_claimed
    /\ escrows[last.id].amount = 0
    /\ escrows[last.id].requester \in Requesters
    /\ escrows[last.id].reserved_solver \in Solvers
    /\ escrows[last.id].token_mint \in FundedMints
    /\ escrows[last.id].intent_id = last.id
    /\ escrows[last.id].expiry >= DEFAULT_EXPIRY_DURATION

\* The sum of the amounts of a sequence of transfers
RECURSIVE TotalOf(_)
TotalOf(transfers) ==
    IF transfers = <<>> THEN 0 ELSE Head(transfers).amount + TotalOf(Tail(transfers))

\* C35: funds leave an escrow at most once. Whatever Claims, Cancels and
\* fulfillment proofs are submitted, in whatever order and by whomever, at
\* most one of them succeeds for an escrow: it is paid out at most once, an
\* open escrow has its whole deposit in the vault, and what has been paid out
\* and what is left in the vault add up to the deposit, so that solver and
\* requester together never receive more than was deposited
C35_ReleasedAtMostOnce ==
    /\ [](\A id \in IntentIds :
            /\ Len(payouts[id]) <= 1
            /\ vault[id] >= 0
            /\ Open(escrows[id]) => payouts[id] = <<>> /\ vault[id] = escrows[id].amount
            /\ payouts[id] # <<>> => Closed(escrows[id]) /\ vault[id] = 0)
    /\ [][\A id \in IntentIds :
            /\ escrows[id].exists =>
                  vault'[id] + TotalOf(payouts'[id]) = vault[id] + TotalOf(payouts[id])
            /\ payouts'[id] # payouts[id] =>
                  /\ Open(escrows[id])
                  /\ payouts'[id] = <<Transfer(last'.dest, escrows[id].amount, last'.op)>>
                  /\ last'.op \in ReleaseOps]_vars

\* C35's case: an escrow has been paid out in full, and in that state a
\* Cancel by its requester and a fulfillment proof for it are both refused
C35_Witness ==
    \E id \in IntentIds :
        /\ Len(payouts[id]) = 1
        /\ payouts[id][1].amount = MaxAmount
        /\ vault[id] = 0
        /\ \E c \in CancelInstructions :
              /\ c.intent_id = id /\ c.escrow_account = id
              /\ c.requester.key = escrows[id].requester /\ c.requester.is_signer
              /\ CancelResult(c) # "Ok"
        /\ program = "native"
        /\ \E s \in ProofSubmissions :
              /\ s[1].escrow_account = id
              /\ s[1].gmp_caller.is_signer
              /\ s[2].ok /\ s[2].intent_id = id
              /\ NativeReceiveFulfillmentProofResult(s[1], s[2]) # "Ok"

\* C36: after expiry the solver side can no longer take the funds. Once now
\* is past the expiry of an escrow, the only step that pays it out is a
\* Cancel by its original requester, to the requester: no Claim and no
\* fulfillment proof pays it out to a solver
C36_AfterExpiryOnlyCancel ==
    [][\A id \in IntentIds :
         /\ escrows[id].exists
         /\ now > escrows[id].expiry
         /\ payouts'[id] # payouts[id]
         => /\ last'.op = "Cancel"
            /\ last'.who = escrows[id].requester
            /\ last'.dest = escrows[id].requester]_vars

\* The Cancel of an escrow by its original requester: signed, on the escrow's
\* own account, to the requester's token account of the escrow's mint
RequesterCancel(id) ==
    [intent_id |-> id, escrow_account |-> id,
     requester |-> Account(escrows[id].requester, TRUE),
     dest |-> TokenAccount(escrows[id].requester, escrows[id].token_mint)]

\* The requester's Cancel of an escrow goes through
RequesterCancels(id) ==
    /\ Open(escrows[id])
    /\ NativeCancel(RequesterCancel(id)) \/ AnchorCancel(RequesterCancel(id))

\* The last instant of the clock
LastInstant == CHOOSE t \in Instants : \A u \in Instants : u <= t

\* The clock keeps moving, and a requester whose Cancel would succeed
\* submits it
SpecLive ==
    /\ Spec
    /\ WF_vars(Tick)
    /\ \A id \in IntentIds : WF_vars(RequesterCancels(id))

----------------------------------------------------------------------------
(* The event cache fed by the hub poller: the monitor of SpecMonitor        *)
(* together with the observation of intent creation events.                 *)
(* Specification SpecReadiness.                                             *)

\* The intents whose creation events the hub chain holds
HubIntentIds == {IntentId999, IntentId00123}

\* The event cache after an intent creation event was observed, were the
\* cached intent of that id to be replaced by the one just read
WithIntentRefreshed(cache, intent) ==
    IF \E k \in DOMAIN cache : cache[k].intent_id = intent.intent_id
    THEN [k \in DOMAIN cache |->
             IF cache[k].intent_id = intent.intent_id THEN intent ELSE cache[k]]
    ELSE Append(cache, intent)

\* The event cache after an intent creation event was observed: an intent
\* whose id is cached already is left as it is
WithIntentObserved(cache, intent) ==
    IF \E k \in DOMAIN cache : cache[k].intent_id = intent.intent_id
    THEN cache
    ELSE Append(cache, intent)

\* The hub poller observes the creation event of an intent, for the first
\* time or again: the IntentEvent it makes of it is not ready
ObserveIntentCreated(raw_id) ==
    /\ event_cache' = WithIntentObserved(event_cache, CachedIntent(raw_id, FALSE))
    /\ monitor_call' = MonitorOk("observe_intent_created", raw_id)
    /\ UNCHANGED <<outside_monitor, escrow_cache, approvals, chain, pollers, applied,
                   wall_clock>>

NextReadiness ==
    \/ NextMonitor
    \/ \E raw_id \in HubIntentIds : ObserveIntentCreated(raw_id)

SpecReadiness == InitMonitor /\ [][NextReadiness]_vars

----------------------------------------------------------------------------
(* Properties of the amounts of the escrows, checked under Spec *)

\* What was deposited at the Create of an escrow: what its vault holds and
\* what has been paid out of it
Deposited(id) == vault[id] + TotalOf(payouts[id])

\* C38: in every reachable state an existing escrow that is not claimed has a
\* positive amount, the one deposited at its Create, and an escrow that is
\* claimed has amount 0. A Create stores the amount it moves into the vault
C38_AmountMatchesClaimedFlag ==
    /\ [](\A id \in IntentIds :
            escrows[id].exists =>
                /\ Deposited(id) > 0
                /\ ~escrows[id].is_claimed =>
                      escrows[id].amount > 0 /\ escrows[id].amount = Deposited(id)
                /\ escrows[id].is_claimed => escrows[id].amount = 0)
    /\ [][\A id \in IntentIds :
            ~escrows[id].exists /\ escrows'[id].exists =>
                /\ ~escrows'[id].is_claimed
                /\ escrows'[id].amount = vault'[id] - vault[id]
                /\ payouts'[id] = <<>>]_vars

\* C38's case: one escrow is claimed with amount 0 after its deposit was paid
\* out, while another is unclaimed and holds the amount of its Create
C38_Witness ==
    \E id, other \in IntentIds :
        /\ Closed(escrows[id])
        /\ escrows[id].amount = 0
        /\ Deposited(id) = MaxAmount
        /\ Open(escrows[other])
        /\ escrows[other].amount = vault[other]
        /\ program = "anchor"

====
